---- MODULE Spec2Model ----
(***************************************************************************)
(* pproftui: the profile-to-graph transformation (ParsePprofFile), the     *)
(* profile differ (DiffPprofFiles), the flame tree builder                 *)
(* (BuildFlameGraph) and the Largest-Remainder apportionment (apportion).  *)
(*                                                                         *)
(* A decoded profile (github.com/google/pprof/profile.Profile) is a record *)
(*   [SampleType : Seq([Type, Unit]), Sample : Seq(Sample)]                *)
(* a Sample is [Value : Seq(Int), Location : Seq(Location)], Location[1]   *)
(* being the leaf frame (Go index 0); a Location is [Line : Seq(Line)],    *)
(* Line[1] the innermost inlined function; a Line is                       *)
(* [Function : [ID, Name, Filename], Line : Int].                          *)
(* Go maps are functions whose DOMAIN is the set of keys; a *FuncNode is   *)
(* named by the key under which its view holds it.  int64 arithmetic is    *)
(* modelled on values far from the 64-bit limits.                          *)
(***************************************************************************)
EXTENDS Integers, Sequences, FiniteSets, TLC

VARIABLES
    pc,              \* which operation has run
    p,               \* the decoded profile handed to ParsePprofFile / BuildFlameGraph
    profileData,     \* what ParsePprofFile returned
    beforeProfile,   \* DiffPprofFiles: the decoded 'before' profile
    afterProfile,    \* DiffPprofFiles: the decoded 'after' profile
    diffProfileData, \* what DiffPprofFiles returned
    reverseDiff,     \* what DiffPprofFiles returned with the two readers exchanged
    sampleIndex,     \* BuildFlameGraph: the selected dimension (Go index, from 0)
    flameGraphRoot,  \* what BuildFlameGraph returned
    values,          \* apportion: the child values
    totalWidth,      \* apportion: the parent width
    widths,          \* what apportion returned
    focusNode,       \* generateFlameGraphLayout: the focus node
    layout,          \* what generateFlameGraphLayout returned
    m,               \* the bubbletea model
    ticker,          \* a tea.Tick of tickerCmd is pending
    fetches          \* the fetchProfileCmd commands that have not delivered yet

layoutVars == <<focusNode, layout>>

uiVars == <<m, ticker, fetches>>

vars == <<pc, p, profileData, beforeProfile, afterProfile, diffProfileData,
          reverseDiff, sampleIndex, flameGraphRoot, values, totalWidth, widths,
          layoutVars, uiVars>>

None == "none"

\* no layout has been asked for; no terminal program is running
NoLayout == focusNode = None /\ layout = None

NoProgram == m = None /\ ticker = None /\ fetches = None

\* ------------------------------------------------------------------ bounds
MaxSamples == 2      \* samples in a profile
MaxLines == 3        \* frames (line entries of locations) over all samples of a profile
MaxInline == 2       \* line entries (inlined functions) of one location
MaxChildren == 3     \* apportion: children of one parent
MaxValue == 3        \* apportion: largest child value
MaxWidth == 10       \* apportion: largest parent width
MaxDiffLocs == 2     \* diff: locations of one sample

\* ------------------------------------------------------------- helpers
SeqsUpTo(S, n) == UNION {[1..k -> S] : k \in 0..n}

RECURSIVE SumSeq(_)
SumSeq(s) == IF s = <<>> THEN 0 ELSE Head(s) + SumSeq(Tail(s))

RECURSIVE SumOver(_, _)
\* the sum of f[x] over the set S
SumOver(f, S) ==
    IF S = {} THEN 0
    ELSE LET x == CHOOSE y \in S : TRUE IN f[x] + SumOver(f, S \ {x})

\* m[k] += v on a Go map: the key is created at the zero value when absent
MapAdd(mp, k, v) ==
    IF k \in DOMAIN mp THEN [mp EXCEPT ![k] = @ + v] ELSE mp @@ (k :> v)

\* ------------------------------------------------------- ratio (float64)
\* A float64 ratio is either +Inf or the quotient num/den in lowest terms.
RECURSIVE GCD(_, _)
GCD(a, b) == IF b = 0 THEN a ELSE GCD(b, a % b)

Abs(x) == IF x < 0 THEN -x ELSE x

PosInf == [inf |-> TRUE, num |-> 1, den |-> 0]

Quotient(a, b) ==
    LET g == GCD(Abs(a), Abs(b))
        sgn == IF b < 0 THEN -1 ELSE 1
    IN [inf |-> FALSE, num |-> sgn * (a \div g), den |-> sgn * (b \div g)]

ZeroRatio == Quotient(0, 1)

OneRatio == Quotient(1, 1)

\* calculateRatio(before, after): the function itself is not in the sources
\* (its callers and tests are); modelled from its specification.
calculateRatio(before, after) ==
    IF before = 0 /\ after = 0 THEN OneRatio
    ELSE IF before = 0 THEN PosInf
    ELSE IF after = 0 THEN ZeroRatio
    ELSE Quotient(after, before)

\* ------------------------------------------------------------ data model
Modified == 0

New == 1

Removed == 2

\* &FuncNode{ID, Name, FileName, StartLine, In, Out}: the other fields zero
NewFuncNode(id, name, fileName, startLine) ==
    [ID |-> id, Name |-> name, FileName |-> fileName, StartLine |-> startLine,
     FlatValue |-> 0, CumValue |-> 0, FlatDelta |-> 0, CumDelta |-> 0,
     FlatRatio |-> ZeroRatio, CumRatio |-> ZeroRatio, ChangeType |-> Modified,
     In |-> <<>>, Out |-> <<>>]

\* fmt.Sprintf("%s (%s)", Type, Unit); a name is kept as its space-separated
\* words, so that strings.Split(name, " ")[0] is its first word
ViewName(sampleType) == <<sampleType.Type, "(" \o sampleType.Unit \o ")">>

\* ------------------------------------------------- ParsePprofFile, pass 1
\* AddCum with the accumulation moved into the `if !ok` block: the cumulative
\* value is counted only when the node is created
AddCumOnCreate(nodes, line, val) ==
    LET fun == line.Function
    IN IF fun.ID \in DOMAIN nodes THEN nodes
       ELSE nodes @@
            (fun.ID :> [NewFuncNode(fun.ID, fun.Name, fun.Filename, line.Line)
                            EXCEPT !.CumValue = val])

\* lines 236-248: the node of line.Function is created on first sight and
\* gains the sample's value as cumulative value
AddCum(nodes, line, val) ==
    LET fun == line.Function
        withNode == IF fun.ID \in DOMAIN nodes THEN nodes
                    ELSE nodes @@
                         (fun.ID :> NewFuncNode(fun.ID, fun.Name, fun.Filename, line.Line))
    IN [withNode EXCEPT ![fun.ID].CumValue = @ + val]

RECURSIVE CumLines(_, _, _, _)
\* for _, line := range loc.Line, from Go index k-1
CumLines(nodes, lines, k, val) ==
    IF k > Len(lines) THEN nodes
    ELSE CumLines(AddCum(nodes, lines[k], val), lines, k + 1, val)

\* AddFlat without the `j == 0` test: every frame's innermost function gains
\* flat value
AddFlatEveryFrame(nodes, loc, j, val) ==
    IF Len(loc.Line) > 0
    THEN LET id == loc.Line[1].Function.ID
         IN IF id \in DOMAIN nodes
            THEN [nodes EXCEPT ![id].FlatValue = @ + val]
            ELSE nodes
    ELSE nodes

\* lines 250-255: the flat value goes to Line[0] of Location[0]
AddFlat(nodes, loc, j, val) ==
    IF j = 1 /\ Len(loc.Line) > 0
    THEN LET id == loc.Line[1].Function.ID
         IN IF id \in DOMAIN nodes
            THEN [nodes EXCEPT ![id].FlatValue = @ + val]
            ELSE nodes
    ELSE nodes

RECURSIVE CumLocations(_, _, _, _)
\* for j, loc := range s.Location, from Go index j-1
CumLocations(nodes, locs, j, val) ==
    IF j > Len(locs) THEN nodes
    ELSE CumLocations(AddFlat(CumLines(nodes, locs[j].Line, 1, val), locs[j], j, val),
                      locs, j + 1, val)

RECURSIVE FirstPassTotalPerLocation(_, _, _, _)
\* FirstPass with `totalValueForView += val` moved into the loop over the
\* sample's locations
FirstPassTotalPerLocation(acc, samples, n, i) ==
    IF n > Len(samples) THEN acc
    ELSE LET s == samples[n]
             val == s.Value[i]
         IN IF val = 0 THEN FirstPassTotalPerLocation(acc, samples, n + 1, i)
            ELSE FirstPassTotalPerLocation(
                     [Nodes |-> CumLocations(acc.Nodes, s.Location, 1, val),
                      total |-> acc.total + Len(s.Location) * val],
                     samples, n + 1, i)

RECURSIVE FirstPass(_, _, _, _)
\* the first loop over p.Sample for dimension i (from 1), from sample n:
\* the nodes and the running totalValueForView
FirstPass(acc, samples, n, i) ==
    IF n > Len(samples) THEN acc
    ELSE LET s == samples[n]
             val == s.Value[i]
         IN IF val = 0 THEN FirstPass(acc, samples, n + 1, i)
            ELSE FirstPass([Nodes |-> CumLocations(acc.Nodes, s.Location, 1, val),
                            total |-> acc.total + val],
                           samples, n + 1, i)

\* ------------------------------------------------- ParsePprofFile, pass 2
RECURSIVE ChainLines(_, _, _)
\* for k := len(loc.Line)-1; k >= 0; k--  : the nodes of one location,
\* outermost inlined caller first
ChainLines(nodes, lines, k) ==
    IF k < 1 THEN <<>>
    ELSE (IF lines[k].Function.ID \in DOMAIN nodes
          THEN <<lines[k].Function.ID>> ELSE <<>>)
         \o ChainLines(nodes, lines, k - 1)

RECURSIVE CallchainLeafFirst(_, _, _)
\* Callchain with the locations walked in the profile's order, leaf first
CallchainLeafFirst(nodes, locs, j) ==
    IF j < 1 THEN <<>>
    ELSE CallchainLeafFirst(nodes, locs, j - 1)
         \o ChainLines(nodes, locs[j].Line, Len(locs[j].Line))

RECURSIVE Callchain(_, _, _)
\* for j := len(s.Location)-1; j >= 0; j--  : the unrolled stack of a sample,
\* outermost caller first
Callchain(nodes, locs, j) ==
    IF j < 1 THEN <<>>
    ELSE ChainLines(nodes, locs[j].Line, Len(locs[j].Line))
         \o Callchain(nodes, locs, j - 1)

\* AddEdge that leaves out an edge from a function to itself
AddEdgeNoSelf(nodes, caller, callee, val) ==
    IF caller = callee THEN nodes
    ELSE LET out == [nodes EXCEPT ![caller].Out = MapAdd(@, callee, val)]
         IN [out EXCEPT ![callee].In = MapAdd(@, caller, val)]

\* lines 284-289: one caller -> callee edge gains the sample's value
AddEdge(nodes, caller, callee, val) ==
    LET out == [nodes EXCEPT ![caller].Out = MapAdd(@, callee, val)]
    IN [out EXCEPT ![callee].In = MapAdd(@, caller, val)]

RECURSIVE ChainEdges(_, _, _, _)
\* for j := 0; j < len(callchain)-1; j++, from Go index j-1
ChainEdges(nodes, chain, j, val) ==
    IF j > Len(chain) - 1 THEN nodes
    ELSE ChainEdges(AddEdge(nodes, chain[j], chain[j + 1], val), chain, j + 1, val)

RECURSIVE SecondPass(_, _, _, _)
\* the second loop over p.Sample for dimension i, from sample n
SecondPass(nodes, samples, n, i) ==
    IF n > Len(samples) THEN nodes
    ELSE LET s == samples[n]
             val == s.Value[i]
         IN IF val = 0 THEN SecondPass(nodes, samples, n + 1, i)
            ELSE SecondPass(
                     ChainEdges(nodes, Callchain(nodes, s.Location, Len(s.Location)), 1, val),
                     samples, n + 1, i)

\* the body of `for i, sampleType := range p.SampleType`: one view
BuildView(prof, i) ==
    LET first == FirstPass([Nodes |-> <<>>, total |-> 0], prof.Sample, 1, i)
    IN [Name |-> ViewName(prof.SampleType[i]),
        Unit |-> prof.SampleType[i].Unit,
        TotalValue |-> first.total,
        Nodes |-> SecondPass(first.Nodes, prof.Sample, 1, i)]

\* ParsePprofFile after a successful profile.Parse: the ProfileData, or the
\* error when there is no view
ParsePprofFile(prof) ==
    LET views == [i \in 1..Len(prof.SampleType) |-> BuildView(prof, i)]
    IN IF Len(views) = 0
       THEN [err |-> "no valid sample data found in profile", Views |-> <<>>, RawPprof |-> None]
       ELSE [err |-> None, Views |-> views, RawPprof |-> prof]

\* -------------------------------------------------------- DiffPprofFiles
\* fmt.Sprintf("%s|%s|%d", node.Name, node.FileName, node.StartLine)
Signature(node) ==
    node.Name \o "|" \o node.FileName \o "|" \o ToString(node.StartLine)

\* hashString: the 64-bit FNV-1a hash of the signature, taken to be free of
\* collisions: the hash value is named by the string it hashes
hashString(str) == <<"fnv64a", str>>

\* strings.Split(v.Name, " ")[0]
BaseName(name) == name[1]

\* beforeViewsMap: for each base name the last 'before' view that has it
BeforeViewsMap(views) ==
    [b \in {BaseName(views[k].Name) : k \in 1..Len(views)} |->
        views[CHOOSE k \in 1..Len(views) :
                /\ BaseName(views[k].Name) = b
                /\ \A x \in 1..Len(views) : BaseName(views[x].Name) = b => x <= k]]

\* beforeFuncMap / afterFuncMap: signature -> node.  The functions of one
\* profile have distinct names, so no two nodes of a view share a signature.
FuncMap(view) ==
    [sig \in {Signature(view.Nodes[id]) : id \in DOMAIN view.Nodes} |->
        view.Nodes[CHOOSE id \in DOMAIN view.Nodes : Signature(view.Nodes[id]) = sig]]

\* lines 405-454 with the diff node keyed and matched by the decoder's
\* function id, as in the earlier version of DiffPprofFiles
DiffNodeById(sig, beforeFuncMap, afterFuncMap) ==
    LET hasAfter == sig \in DOMAIN afterFuncMap
        baseNode == IF hasAfter THEN afterFuncMap[sig] ELSE beforeFuncMap[sig]
        id == baseNode.ID
        beforeIds == {t \in DOMAIN beforeFuncMap : beforeFuncMap[t].ID = id}
        afterIds == {t \in DOMAIN afterFuncMap : afterFuncMap[t].ID = id}
        hasB == beforeIds # {}
        hasA == afterIds # {}
        beforeNode == beforeFuncMap[CHOOSE t \in beforeIds : TRUE]
        afterNode == afterFuncMap[CHOOSE t \in afterIds : TRUE]
        beforeFlat == IF hasB THEN beforeNode.FlatValue ELSE 0
        beforeCum == IF hasB THEN beforeNode.CumValue ELSE 0
        afterFlat == IF hasA THEN afterNode.FlatValue ELSE 0
        afterCum == IF hasA THEN afterNode.CumValue ELSE 0
    IN [NewFuncNode(hashString(sig), baseNode.Name, baseNode.FileName, baseNode.StartLine)
            EXCEPT !.FlatDelta = afterFlat - beforeFlat,
                   !.CumDelta = afterCum - beforeCum,
                   !.FlatRatio = calculateRatio(beforeFlat, afterFlat),
                   !.CumRatio = calculateRatio(beforeCum, afterCum),
                   !.ChangeType = IF ~hasB /\ hasA THEN New
                                  ELSE IF hasB /\ ~hasA THEN Removed
                                  ELSE Modified]

\* lines 405-454 with both ratios computed from the flat values
DiffNodeFlatRatios(sig, beforeFuncMap, afterFuncMap) ==
    LET hasBefore == sig \in DOMAIN beforeFuncMap
        hasAfter == sig \in DOMAIN afterFuncMap
        baseNode == IF hasAfter THEN afterFuncMap[sig] ELSE beforeFuncMap[sig]
        beforeFlat == IF hasBefore THEN beforeFuncMap[sig].FlatValue ELSE 0
        beforeCum == IF hasBefore THEN beforeFuncMap[sig].CumValue ELSE 0
        afterFlat == IF hasAfter THEN afterFuncMap[sig].FlatValue ELSE 0
        afterCum == IF hasAfter THEN afterFuncMap[sig].CumValue ELSE 0
    IN [NewFuncNode(hashString(sig), baseNode.Name, baseNode.FileName, baseNode.StartLine)
            EXCEPT !.FlatDelta = afterFlat - beforeFlat,
                   !.CumDelta = afterCum - beforeCum,
                   !.FlatRatio = calculateRatio(beforeFlat, afterFlat),
                   !.CumRatio = calculateRatio(beforeFlat, afterFlat),
                   !.ChangeType = IF ~hasBefore /\ hasAfter THEN New
                                  ELSE IF hasBefore /\ ~hasAfter THEN Removed
                                  ELSE Modified]

\* lines 405-454 with the 'before' values added to the deltas where the code
\* subtracts them
DiffNodeAddsBefore(sig, beforeFuncMap, afterFuncMap) ==
    LET hasBefore == sig \in DOMAIN beforeFuncMap
        hasAfter == sig \in DOMAIN afterFuncMap
        baseNode == IF hasAfter THEN afterFuncMap[sig] ELSE beforeFuncMap[sig]
        beforeFlat == IF hasBefore THEN beforeFuncMap[sig].FlatValue ELSE 0
        beforeCum == IF hasBefore THEN beforeFuncMap[sig].CumValue ELSE 0
        afterFlat == IF hasAfter THEN afterFuncMap[sig].FlatValue ELSE 0
        afterCum == IF hasAfter THEN afterFuncMap[sig].CumValue ELSE 0
    IN [NewFuncNode(hashString(sig), baseNode.Name, baseNode.FileName, baseNode.StartLine)
            EXCEPT !.FlatDelta = afterFlat + beforeFlat,
                   !.CumDelta = afterCum + beforeCum,
                   !.FlatRatio = calculateRatio(beforeFlat, afterFlat),
                   !.CumRatio = calculateRatio(beforeCum, afterCum),
                   !.ChangeType = IF ~hasBefore /\ hasAfter THEN New
                                  ELSE IF hasBefore /\ ~hasAfter THEN Removed
                                  ELSE Modified]

\* lines 405-454: the diff node of one signature
DiffNode(sig, beforeFuncMap, afterFuncMap) ==
    LET hasBefore == sig \in DOMAIN beforeFuncMap
        hasAfter == sig \in DOMAIN afterFuncMap
        baseNode == IF hasAfter THEN afterFuncMap[sig] ELSE beforeFuncMap[sig]
        beforeFlat == IF hasBefore THEN beforeFuncMap[sig].FlatValue ELSE 0
        beforeCum == IF hasBefore THEN beforeFuncMap[sig].CumValue ELSE 0
        afterFlat == IF hasAfter THEN afterFuncMap[sig].FlatValue ELSE 0
        afterCum == IF hasAfter THEN afterFuncMap[sig].CumValue ELSE 0
    IN [NewFuncNode(hashString(sig), baseNode.Name, baseNode.FileName, baseNode.StartLine)
            EXCEPT !.FlatDelta = afterFlat - beforeFlat,
                   !.CumDelta = afterCum - beforeCum,
                   !.FlatRatio = calculateRatio(beforeFlat, afterFlat),
                   !.CumRatio = calculateRatio(beforeCum, afterCum),
                   !.ChangeType = IF ~hasBefore /\ hasAfter THEN New
                                  ELSE IF hasBefore /\ ~hasAfter THEN Removed
                                  ELSE Modified]

\* lines 374-460: the diff view of one 'after' view and the 'before' view of
\* the same base name; edges are not processed (the TODO of line 458)
DiffView(beforeView, afterView) ==
    LET beforeFuncMap == FuncMap(beforeView)
        afterFuncMap == FuncMap(afterView)
        allFuncSigs == DOMAIN beforeFuncMap \cup DOMAIN afterFuncMap
    IN [Name |-> <<"Diff:">> \o (IF afterView.Name[1] = "Diff:" THEN Tail(afterView.Name)
                                ELSE afterView.Name),
        Unit |-> afterView.Unit,
        TotalValue |-> afterView.TotalValue - beforeView.TotalValue,
        Nodes |-> [id \in {hashString(sig) : sig \in allFuncSigs} |->
                    DiffNode(id[2], beforeFuncMap, afterFuncMap)]]

RECURSIVE DiffViews(_, _, _)
\* for _, afterView := range afterData.Views, from view k
DiffViews(beforeViewsMap, afterViews, k) ==
    IF k > Len(afterViews) THEN <<>>
    ELSE LET baseName == BaseName(afterViews[k].Name)
         IN (IF baseName \in DOMAIN beforeViewsMap
             THEN <<DiffView(beforeViewsMap[baseName], afterViews[k])>>
             ELSE <<>>)
            \o DiffViews(beforeViewsMap, afterViews, k + 1)

\* DiffPprofFiles without the test of lines 463-465
DiffPprofFilesNoViewTest(before, after) ==
    LET beforeData == ParsePprofFile(before)
        afterData == ParsePprofFile(after)
        views == DiffViews(BeforeViewsMap(beforeData.Views), afterData.Views, 1)
    IN IF beforeData.err # None
       THEN [err |-> "could not parse 'before' profile", Views |-> <<>>, RawPprof |-> None]
       ELSE IF afterData.err # None
       THEN [err |-> "could not parse 'after' profile", Views |-> <<>>, RawPprof |-> None]
       ELSE [err |-> None, Views |-> views, RawPprof |-> after]

\* DiffPprofFiles on two profiles that decode
DiffPprofFiles(before, after) ==
    LET beforeData == ParsePprofFile(before)
        afterData == ParsePprofFile(after)
        views == DiffViews(BeforeViewsMap(beforeData.Views), afterData.Views, 1)
    IN IF beforeData.err # None
       THEN [err |-> "could not parse 'before' profile", Views |-> <<>>, RawPprof |-> None]
       ELSE IF afterData.err # None
       THEN [err |-> "could not parse 'after' profile", Views |-> <<>>, RawPprof |-> None]
       ELSE IF Len(views) = 0
       THEN [err |-> "no common profile types found to diff between the two files",
             Views |-> <<>>, RawPprof |-> None]
       ELSE [err |-> None, Views |-> views, RawPprof |-> after]

\* ------------------------------------------------------------ sort.Slice
RECURSIVE InsertSorted(_, _, _)
\* the inner loop of the insertion sort, for less(x, y) == key[x] > key[y]:
\* x moves left past every element it is less than
InsertSorted(sorted, x, key) ==
    IF sorted = <<>> THEN <<x>>
    ELSE LET last == sorted[Len(sorted)]
         IN IF key[x] > key[last]
            THEN Append(InsertSorted(SubSeq(sorted, 1, Len(sorted) - 1), x, key), last)
            ELSE Append(sorted, x)

RECURSIVE InsertionSort(_, _, _)
InsertionSort(s, n, key) ==
    IF n = 0 THEN <<>>
    ELSE InsertSorted(InsertionSort(s, n - 1, key), s[n], key)

\* sort.Slice(s, less) with less(x, y) == key[x] > key[y]: on a short slice
\* (at most 12 elements from Go 1.19, at most 6 before) an insertion sort
sortSlice(s, key) == InsertionSort(s, Len(s), key)

\* the longest slice sort.Slice sorts by insertion (maxInsertion of pdqsort_func)
maxInsertion == 12

RECURSIVE Reversed(_)
Reversed(s) == IF s = <<>> THEN <<>> ELSE Append(Reversed(Tail(s)), Head(s))

\* sort.Slice on a slice of any length.  Past maxInsertion elements the sort
\* is a pattern-defeating quicksort and "is not guaranteed to be stable":
\* the order of elements of equal key is unspecified.  Two of the orders it
\* allows are modelled, equal keys in slice order and equal keys in reverse
\* slice order (`backwards`).
sortSliceAny(s, key, backwards) ==
    IF Len(s) > maxInsertion /\ backwards
    THEN InsertionSort(Reversed(s), Len(s), key)
    ELSE sortSlice(s, key)

\* ------------------------------------------------------- BuildFlameGraph
\* A flame tree is the sequence of its FlameNodes in creation order, node 1
\* the root; a *FlameNode is the node's index, nil is 0.
NilNode == 0

RootNode == 1

NewFlameNode(name, parent) ==
    [Name |-> name, Value |-> 0, Children |-> <<>>, Parent |-> parent]

\* Descend without `currentNode = childNode`: every function of the stack
\* becomes a child of the node the sample started at
DescendNoAdvance(st, funcName, val) ==
    LET tree == st.tree
        children == tree[st.cur].Children
        found == {c \in 1..Len(children) : tree[children[c]].Name = funcName}
        first == CHOOSE c \in found : \A d \in found : c <= d
        childNode == IF found # {} THEN children[first] ELSE Len(tree) + 1
        linked == IF found # {} THEN tree
                  ELSE Append([tree EXCEPT ![st.cur].Children = Append(@, childNode)],
                              NewFlameNode(funcName, st.cur))
    IN [tree |-> [linked EXCEPT ![childNode].Value = @ + val], cur |-> st.cur]

\* lines 499-519: find the child of the current node named funcName, or
\* create it; add the value; descend
Descend(st, funcName, val) ==
    LET tree == st.tree
        children == tree[st.cur].Children
        found == {c \in 1..Len(children) : tree[children[c]].Name = funcName}
        first == CHOOSE c \in found : \A d \in found : c <= d
        childNode == IF found # {} THEN children[first] ELSE Len(tree) + 1
        linked == IF found # {} THEN tree
                  ELSE Append([tree EXCEPT ![st.cur].Children = Append(@, childNode)],
                              NewFlameNode(funcName, st.cur))
    IN [tree |-> [linked EXCEPT ![childNode].Value = @ + val], cur |-> childNode]

RECURSIVE DescendLines(_, _, _, _)
\* for j := len(loc.Line) - 1; j >= 0; j--
DescendLines(st, lines, j, val) ==
    IF j < 1 THEN st
    ELSE DescendLines(Descend(st, lines[j].Function.Name, val), lines, j - 1, val)

RECURSIVE DescendLocations(_, _, _, _)
\* for i := len(s.Location) - 1; i >= 0; i--
DescendLocations(st, locs, i, val) ==
    IF i < 1 THEN st
    ELSE DescendLocations(DescendLines(st, locs[i].Line, Len(locs[i].Line), val),
                          locs, i - 1, val)

RECURSIVE FlameSamples(_, _, _, _)
\* for _, s := range p.Sample, from sample n, for the dimension at Go index
\* idx.  The tree of a sample is evaluated before the next sample is taken
\* (the test of the root, which no sample changes, asks for it).
FlameSamples(acc, samples, n, idx) ==
    IF n > Len(samples) THEN acc
    ELSE LET val == samples[n].Value[idx + 1]
             next == [tree |-> DescendLocations([tree |-> acc.tree, cur |-> RootNode],
                                                samples[n].Location,
                                                Len(samples[n].Location), val).tree,
                      totalValue |-> acc.totalValue + val]
         IN IF val = 0 THEN FlameSamples(acc, samples, n + 1, idx)
            ELSE IF next.tree[RootNode].Parent = NilNode
            THEN FlameSamples(next, samples, n + 1, idx)
            ELSE acc

RECURSIVE sortChildren(_, _, _)
RECURSIVE SortEachChild(_, _, _, _)
\* for _, child := range node.Children { sortChildren(child) }
SortEachChild(tree, children, c, backwards) ==
    IF c > Len(children) THEN tree
    ELSE SortEachChild(sortChildren(tree, children[c], backwards), children, c + 1,
                       backwards)

\* sortChildren: the children by descending Value, recursively, with
\* sort.Slice; `backwards` is the order it leaves equal Values in when a node
\* has more than maxInsertion children
sortChildren(tree, node, backwards) ==
    IF node = NilNode \/ Len(tree[node].Children) = 0 THEN tree
    ELSE LET sorted == [tree EXCEPT ![node].Children =
                            sortSliceAny(@, [n \in 1..Len(tree) |-> tree[n].Value],
                                         backwards)]
         IN SortEachChild(sorted, sorted[node].Children, 1, backwards)

\* BuildFlameGraph with the root's Value derived from its children instead of
\* the running total
BuildFlameGraphRootFromChildren(prof, idx, backwards) ==
    LET root == <<NewFlameNode("root", NilNode)>>
    IN IF Len(prof.Sample) = 0 \/ idx >= Len(prof.SampleType) THEN root
       ELSE LET built == FlameSamples([tree |-> root, totalValue |-> 0], prof.Sample, 1, idx)
                kids == built.tree[RootNode].Children
            IN sortChildren([built.tree EXCEPT ![RootNode].Value =
                                SumSeq([c \in 1..Len(kids) |-> built.tree[kids[c]].Value])],
                            RootNode, backwards)

\* BuildFlameGraph(p, sampleIndex, unit) for a non-nil p: the tree of the root
\* it returns
BuildFlameGraph(prof, idx, backwards) ==
    LET root == <<NewFlameNode("root", NilNode)>>
    IN IF Len(prof.Sample) = 0 \/ idx >= Len(prof.SampleType) THEN root
       ELSE LET built == FlameSamples([tree |-> root, totalValue |-> 0], prof.Sample, 1, idx)
            IN sortChildren([built.tree EXCEPT ![RootNode].Value = built.totalValue],
                            RootNode, backwards)

\* -------------------------------------------------------------- apportion
\* int(x) of a quotient a/b, b > 0: truncation toward zero
TruncDiv(a, b) == IF a < 0 THEN -((-a) \div b) ELSE a \div b

IsPowerOfTwo(n) == \E k \in 0..30 : n = 2 ^ k

\* The float64 arithmetic of apportion.  idealWidth = v / sumFloats * W is the
\* exact quotient v*W/sum moved by a rounding error far smaller than any
\* difference between two distinct exact quotients; round[v] in {-1, 0, 1} is
\* the direction of that error for the child value v (the same for equal
\* values).  The operations are exact, whatever round says, when v is 0, when
\* v is the whole sum, and when the sum is a power of two.
RoundingOf(v, sum, round) ==
    IF v = 0 \/ v = sum \/ IsPowerOfTwo(Abs(sum)) THEN 0 ELSE round[v]

\* lines 46-52: one remainderItem.  With den = |sum| and num/den the exact
\* ideal width, Value is int(idealWidth) and Remain, the fraction
\* idealWidth - Value, is kept as 3 * (its exact numerator over den) plus the
\* rounding direction, which orders the items as their float64 Remain does.
RemainderItem(i, v, sum, width, round) ==
    LET den == Abs(sum)
        num == IF sum < 0 THEN -(v * width) ELSE v * width
        err == RoundingOf(v, sum, round)
        exact == num % den = 0
        k == TruncDiv(num, den)
        value == IF exact /\ k > 0 /\ err < 0 THEN k - 1
                 ELSE IF exact /\ k < 0 /\ err > 0 THEN k + 1
                 ELSE k
    IN [Index |-> i, Value |-> value, Remain |-> 3 * (num - value * den) + err]

\* lines 62-64: the first `remainder` items of the sorted slice gain a column
GiveExtras(items, remainder) ==
    [x \in 1..Len(items) |->
        IF x <= remainder THEN [items[x] EXCEPT !.Value = @ + 1] ELSE items[x]]

\* apportion with the remainder left undistributed: the floors alone
apportionFloorsOnly(vals, width, round, backwards) ==
    IF width <= 0 THEN [i \in 1..Len(vals) |-> 0]
    ELSE LET sumFloats == SumSeq(vals)
         IN IF sumFloats = 0 THEN [i \in 1..Len(vals) |-> 0]
            ELSE [i \in 1..Len(vals) |->
                     RemainderItem(i, vals[i], sumFloats, width, round).Value]

\* apportion(values, totalWidth) under the rounding directions `round` and
\* the order `backwards` of equal remainders in a long slice
apportion(vals, width, round, backwards) ==
    IF width <= 0 THEN [i \in 1..Len(vals) |-> 0]
    ELSE LET sumFloats == SumSeq(vals)
         IN IF sumFloats = 0 THEN [i \in 1..Len(vals) |-> 0]
            ELSE LET items == [i \in 1..Len(vals) |->
                                  RemainderItem(i, vals[i], sumFloats, width, round)]
                     sumInts == SumSeq([i \in 1..Len(vals) |-> items[i].Value])
                     remainder == width - sumInts
                     byRemain == sortSliceAny(items,
                                     [it \in {items[i] : i \in 1..Len(items)} |-> it.Remain],
                                     backwards)
                     given == IF remainder > 0 THEN GiveExtras(byRemain, remainder)
                              ELSE items
                     restored == sortSlice(given,
                                     [it \in {given[i] : i \in 1..Len(given)} |-> -it.Index])
                 IN [i \in 1..Len(vals) |-> restored[i].Value]

\* ---------------------------------------------- inputs of ParsePprofFile
FunA == [ID |-> 1, Name |-> "A", Filename |-> "a.go"]

FunB == [ID |-> 2, Name |-> "B", Filename |-> "b.go"]

ParseLines == {[Function |-> f, Line |-> 1] : f \in {FunA, FunB}}

CpuSampleTypes == <<[Type |-> "samples", Unit |-> "count"],
                    [Type |-> "cpu", Unit |-> "nanoseconds"]>>

\* one value per sample type; a sample may be zero in one dimension only
ParseValues == {<<10, 0>>, <<1, 1>>, <<-1, 2>>}

\* a location takes as many frames of the budget as it has line entries, and
\* one frame when it has none (a location without symbols)
\* the locations that take k frames
LocationsOfCost(k) ==
    {[Line |-> l] : l \in (IF k = 1 THEN {<<>>} ELSE {}) \cup [1..k -> ParseLines]}

RECURSIVE StacksOfCost(_)
\* the stacks that take k frames, no location of more than MaxInline lines
StacksOfCost(k) ==
    IF k = 0 THEN {<<>>}
    ELSE UNION {{<<loc>> \o rest : loc \in LocationsOfCost(f), rest \in StacksOfCost(k - f)} :
                f \in {g \in 1..MaxInline : g <= k}}

SamplesOfCost(k) ==
    {[Value |-> v, Location |-> st] : v \in ParseValues, st \in StacksOfCost(k)}

\* the frames each sample of a profile takes: at most MaxSamples samples
\* within a budget of MaxLines frames
ParseShapes == {shape \in SeqsUpTo(0..MaxLines, MaxSamples) : SumSeq(shape) <= MaxLines}

RECURSIVE SampleSeqs(_)
\* the sample lists of a shape
SampleSeqs(shape) ==
    IF shape = <<>> THEN {<<>>}
    ELSE {<<s>> \o rest : s \in SamplesOfCost(Head(shape)), rest \in SampleSeqs(Tail(shape))}

\* a profile that decodes but declares no sample type
NoSampleTypeProfile == [SampleType |-> <<>>, Sample |-> <<>>]

ParseProfiles(shape) ==
    {[SampleType |-> CpuSampleTypes, Sample |-> ss] : ss \in SampleSeqs(shape)}
        \cup (IF shape = <<>> THEN {NoSampleTypeProfile} ELSE {})

\* ------------------------------------------------- specification: parse
Idle ==
    /\ beforeProfile = None /\ afterProfile = None
    /\ diffProfileData = None /\ reverseDiff = None
    /\ sampleIndex = 0 /\ flameGraphRoot = None
    /\ values = <<>> /\ totalWidth = 0 /\ widths = None
    /\ NoLayout /\ NoProgram

InitParse ==
    /\ pc = "start"
    /\ \E shape \in ParseShapes : p \in ParseProfiles(shape)
    /\ profileData = None
    /\ Idle

\* main, single profile mode: profileData, err = ParsePprofFile(reader)
Parse ==
    /\ pc = "start"
    /\ profileData' = ParsePprofFile(p)
    /\ pc' = "parsed"
    /\ UNCHANGED <<p, beforeProfile, afterProfile, diffProfileData, reverseDiff,
                   sampleIndex, flameGraphRoot, values, totalWidth, widths,
                   layoutVars, uiVars>>

NextParse == Parse

SpecParse == InitParse /\ [][NextParse]_vars

\* ------------------------------------------------ reading a parsed view
ViewIndexes == IF pc = "parsed" THEN 1..Len(profileData.Views) ELSE {}

NodesOf(i) == profileData.Views[i].Nodes

\* the sample values of dimension i are all non-negative
NonNegative(prof, i) == \A n \in 1..Len(prof.Sample) : prof.Sample[n].Value[i] >= 0

\* the samples ParsePprofFile does not skip in dimension i
Counted(prof, i) == {n \in 1..Len(prof.Sample) : prof.Sample[n].Value[i] # 0}

\* the function ids of a sample, outermost caller first, inlined functions
\* of a location unrolled (written from the profile format, not from the
\* parser's loops)
RECURSIVE Concat(_)
Concat(ss) == IF ss = <<>> THEN <<>> ELSE Head(ss) \o Concat(Tail(ss))

FlatChain(s) ==
    Concat(Reversed([j \in 1..Len(s.Location) |->
        Reversed([k \in 1..Len(s.Location[j].Line) |-> s.Location[j].Line[k].Function.ID])]))

Occurrences(s, id) ==
    LET chain == FlatChain(s)
    IN Cardinality({x \in 1..Len(chain) : chain[x] = id})

AdjacentPairs(s, u, v) ==
    LET chain == FlatChain(s)
    IN Cardinality({x \in 1..(Len(chain) - 1) : chain[x] = u /\ chain[x + 1] = v})

\* the sample has a leaf function: Location[0] exists and has a line
HasLeaf(s) == Len(s.Location) > 0 /\ Len(s.Location[1].Line) > 0

IsLeaf(s, id) == HasLeaf(s) /\ s.Location[1].Line[1].Function.ID = id

SumFlat(nodes) == SumOver([id \in DOMAIN nodes |-> nodes[id].FlatValue], DOMAIN nodes)

\* --------------------------------------------------------------- C1
\* C1 as stated: after ParsePprofFile has processed any sample stream, every
\* FuncNode of every view satisfies FlatValue <= CumValue.
C1_FlatLeCumAnyStream ==
    pc = "parsed" =>
        \A i \in ViewIndexes : \A id \in DOMAIN NodesOf(i) :
            NodesOf(i)[id].FlatValue <= NodesOf(i)[id].CumValue

\* C1 amended: in every view whose sample values are all non-negative, every
\* FuncNode satisfies FlatValue <= CumValue.
C1_FlatLeCum ==
    pc = "parsed" =>
        \A i \in ViewIndexes : NonNegative(p, i) =>
            \A id \in DOMAIN NodesOf(i) :
                NodesOf(i)[id].FlatValue <= NodesOf(i)[id].CumValue

C1_Witness ==
    /\ pc = "parsed"
    /\ \E i \in ViewIndexes :
        /\ NonNegative(p, i)
        /\ Cardinality(Counted(p, i)) = 2
        /\ \E id \in DOMAIN NodesOf(i) :
            /\ NodesOf(i)[id].FlatValue > 0
            /\ NodesOf(i)[id].FlatValue < NodesOf(i)[id].CumValue

\* --------------------------------------------------------------- C3
\* C3: recursion accounting.  In every view, a function gains, per counted
\* sample of value v, k*v cumulative value for its k appearances in the
\* unrolled stack, v flat value only when it is the leaf, and v on its
\* self-edge Out[self] and In[self] per adjacent self-pair; one sample
\* [A, A, A] of value 10 gives A.flat = 10, A.cum = 30, A.Out[A] = A.In[A] = 20.
C3_RecursionAccounting ==
    pc = "parsed" =>
        \A i \in ViewIndexes : \A id \in DOMAIN NodesOf(i) :
            LET node == NodesOf(i)[id]
                val(n) == p.Sample[n].Value[i]
                cum == SumOver([n \in Counted(p, i) |->
                                    Occurrences(p.Sample[n], id) * val(n)], Counted(p, i))
                flat == SumOver([n \in Counted(p, i) |->
                                    IF IsLeaf(p.Sample[n], id) THEN val(n) ELSE 0],
                                Counted(p, i))
                selfPairs == {n \in Counted(p, i) : AdjacentPairs(p.Sample[n], id, id) > 0}
                self == SumOver([n \in selfPairs |->
                                    AdjacentPairs(p.Sample[n], id, id) * val(n)], selfPairs)
            IN /\ node.CumValue = cum
               /\ node.FlatValue = flat
               /\ (id \in DOMAIN node.Out) = (selfPairs # {})
               /\ (id \in DOMAIN node.In) = (selfPairs # {})
               /\ selfPairs # {} => node.Out[id] = self /\ node.In[id] = self

RecursiveA == [Line |-> <<[Function |-> FunA, Line |-> 1]>>]

C3_Witness ==
    /\ pc = "parsed"
    /\ p.Sample = <<[Value |-> <<10, 0>>, Location |-> <<RecursiveA, RecursiveA, RecursiveA>>]>>
    /\ NodesOf(1)[1].FlatValue = 10
    /\ NodesOf(1)[1].CumValue = 30
    /\ NodesOf(1)[1].Out[1] = 20
    /\ NodesOf(1)[1].In[1] = 20

\* --------------------------------------------------------------- C8
\* C8 as stated: in every view the sum of FlatValue over all nodes is
\* <= TotalValue, with equality when every nonzero-value sample attributes to
\* exactly one leaf function.
C8_SumFlatLeTotalAnyStream ==
    pc = "parsed" =>
        \A i \in ViewIndexes :
            /\ SumFlat(NodesOf(i)) <= profileData.Views[i].TotalValue
            /\ (\A n \in Counted(p, i) : HasLeaf(p.Sample[n]))
                    => SumFlat(NodesOf(i)) = profileData.Views[i].TotalValue

\* C8 amended: in every view whose sample values are all non-negative the sum
\* of FlatValue is <= TotalValue; in every view, it equals TotalValue when
\* every nonzero-value sample has a leaf function.
C8_SumFlatLeTotal ==
    pc = "parsed" =>
        \A i \in ViewIndexes :
            /\ NonNegative(p, i) => SumFlat(NodesOf(i)) <= profileData.Views[i].TotalValue
            /\ (\A n \in Counted(p, i) : HasLeaf(p.Sample[n]))
                    => SumFlat(NodesOf(i)) = profileData.Views[i].TotalValue

C8_Witness ==
    /\ pc = "parsed"
    /\ \E i \in ViewIndexes :
        /\ NonNegative(p, i)
        /\ Cardinality(DOMAIN NodesOf(i)) = 2
        /\ \E n \in Counted(p, i) : ~HasLeaf(p.Sample[n])
        /\ 0 < SumFlat(NodesOf(i))
        /\ SumFlat(NodesOf(i)) < profileData.Views[i].TotalValue

\* --------------------------------------------------------------- C9
\* the callees reachable from the functions of S along Out edges
RECURSIVE Reachable(_, _, _)
Reachable(nodes, frontier, seen) ==
    IF frontier \subseteq seen THEN seen
    ELSE Reachable(nodes,
                   UNION {DOMAIN nodes[u].Out : u \in frontier \ seen},
                   seen \cup frontier)

Acyclic(nodes) ==
    \A u \in DOMAIN nodes : u \notin Reachable(nodes, DOMAIN nodes[u].Out, {})

\* the nodes nobody calls: an empty In map
Roots(nodes) == {u \in DOMAIN nodes : DOMAIN nodes[u].In = {}}

SumRootCum(nodes) == SumOver([u \in Roots(nodes) |-> nodes[u].CumValue], Roots(nodes))

\* C9 as stated: whenever the call graph of a view is acyclic, the sum of
\* CumValue over its root nodes equals the view's TotalValue.
C9_RootCumIsTotalWhenAcyclic ==
    pc = "parsed" =>
        \A i \in ViewIndexes :
            Acyclic(NodesOf(i)) => SumRootCum(NodesOf(i)) = profileData.Views[i].TotalValue

\* every counted sample has a function, and its outermost one is a root
StartsAtRoot(i) ==
    \A n \in Counted(p, i) :
        /\ FlatChain(p.Sample[n]) # <<>>
        /\ FlatChain(p.Sample[n])[1] \in Roots(NodesOf(i))

\* C9 amended: whenever the call graph of a view is acyclic and every
\* nonzero-value sample has an unrolled call chain that is not empty and
\* starts at a root node, the sum of CumValue over the root nodes equals the
\* view's TotalValue.
C9_RootCumIsTotal ==
    pc = "parsed" =>
        \A i \in ViewIndexes :
            (Acyclic(NodesOf(i)) /\ StartsAtRoot(i))
                => SumRootCum(NodesOf(i)) = profileData.Views[i].TotalValue

C9_Witness ==
    /\ pc = "parsed"
    /\ \E i \in ViewIndexes :
        /\ Acyclic(NodesOf(i))
        /\ StartsAtRoot(i)
        /\ Cardinality(Counted(p, i)) = 2
        /\ Cardinality(DOMAIN NodesOf(i)) = 2
        /\ \E u \in DOMAIN NodesOf(i) : DOMAIN NodesOf(i)[u].Out # {}
        /\ SumRootCum(NodesOf(i)) = profileData.Views[i].TotalValue

\* ------------------------------------------------ specification: flame
\* maxInsertion + 1 functions that each run alone, one sample each: the
\* root gets more children than sort.Slice sorts by insertion.  The first k
\* samples have the value 1 and the others the value 2.
Fun(k) == [ID |-> k, Name |-> "f" \o ToString(k), Filename |-> "f.go"]

WideProfiles ==
    {[SampleType |-> CpuSampleTypes,
      Sample |-> [n \in 1..(maxInsertion + 1) |->
                    [Value |-> <<IF n <= k THEN 1 ELSE 2, 1>>,
                     Location |-> <<[Line |-> <<[Function |-> Fun(n), Line |-> 1]>>]>>]]] :
        k \in 0..(maxInsertion + 1)}

\* some node of the tree of the profile can have more than maxInsertion
\* children: only then the order of equal Values is open
ManyChildren(prof) == Len(prof.Sample) > maxInsertion

InitFlame ==
    /\ pc = "start"
    /\ \/ \E shape \in ParseShapes : p \in ParseProfiles(shape)
       \/ p \in WideProfiles
    /\ sampleIndex \in 0..Len(CpuSampleTypes)
    /\ flameGraphRoot = None
    /\ profileData = None
    /\ beforeProfile = None /\ afterProfile = None
    /\ diffProfileData = None /\ reverseDiff = None
    /\ values = <<>> /\ totalWidth = 0 /\ widths = None
    /\ NoLayout /\ NoProgram

\* model.rebuildFlameGraph: flameGraphRoot = BuildFlameGraph(RawPprof, index, unit)
BuildFlame ==
    /\ pc = "start"
    /\ \E backwards \in IF ManyChildren(p) THEN BOOLEAN ELSE {FALSE} :
            flameGraphRoot' = BuildFlameGraph(p, sampleIndex, backwards)
    /\ pc' = "built"
    /\ UNCHANGED <<p, profileData, beforeProfile, afterProfile, diffProfileData,
                   reverseDiff, sampleIndex, values, totalWidth, widths,
                   layoutVars, uiVars>>

NextFlame == BuildFlame

SpecFlame == InitFlame /\ [][NextFlame]_vars

\* the selected dimension exists
Selected == sampleIndex < Len(p.SampleType)

SumChildren(tree, node) ==
    SumSeq([c \in 1..Len(tree[node].Children) |-> tree[tree[node].Children[c]].Value])

\* --------------------------------------------------------------- C6
\* C6: after BuildFlameGraph has processed any sample stream, the root's
\* Value equals the sum of the values of all nonzero-value samples in the
\* selected dimension.
C6_RootValueIsTotal ==
    (pc = "built" /\ Selected) =>
        flameGraphRoot[RootNode].Value =
            SumOver([n \in Counted(p, sampleIndex + 1) |-> p.Sample[n].Value[sampleIndex + 1]],
                    Counted(p, sampleIndex + 1))

C6_Witness ==
    /\ pc = "built" /\ Selected
    /\ Cardinality(Counted(p, sampleIndex + 1)) = 1
    /\ Len(p.Sample) = 2
    /\ flameGraphRoot[RootNode].Value > 0
    /\ flameGraphRoot[RootNode].Children # <<>>

\* --------------------------------------------------------------- C7
\* C7 as stated: in the tree returned by BuildFlameGraph for any sample
\* stream, every node's Value is >= the sum of its children's Values.
C7_ValueGeChildrenAnyStream ==
    pc = "built" =>
        \A n \in 1..Len(flameGraphRoot) :
            flameGraphRoot[n].Value >= SumChildren(flameGraphRoot, n)

\* C7 amended: in the tree returned by BuildFlameGraph for a sample stream
\* whose values in the selected dimension are all non-negative, every node's
\* Value is >= the sum of its children's Values.
C7_ValueGeChildren ==
    (pc = "built" /\ Selected /\ NonNegative(p, sampleIndex + 1)) =>
        \A n \in 1..Len(flameGraphRoot) :
            flameGraphRoot[n].Value >= SumChildren(flameGraphRoot, n)

C7_Witness ==
    /\ pc = "built" /\ Selected /\ NonNegative(p, sampleIndex + 1)
    /\ \E n \in 2..Len(flameGraphRoot) :
        /\ flameGraphRoot[n].Children # <<>>
        /\ flameGraphRoot[n].Value > SumChildren(flameGraphRoot, n)

\* --------------------------------------------- specification: apportion
ApportionValues == -1..MaxValue

\* lists of children too long for the insertion sort: k children of value 1
\* followed by children of value 2
LongValues ==
    {[i \in 1..(maxInsertion + 1) |-> IF i <= k THEN 1 ELSE 2] : k \in 0..(maxInsertion + 1)}

InitApportion ==
    /\ pc = "start"
    /\ values \in (SeqsUpTo(ApportionValues, MaxChildren) \ {<<>>}) \cup LongValues
    /\ totalWidth \in -1..MaxWidth
    /\ widths = None
    /\ NoLayout /\ NoProgram
    /\ p = None /\ profileData = None
    /\ beforeProfile = None /\ afterProfile = None
    /\ diffProfileData = None /\ reverseDiff = None
    /\ sampleIndex = 0 /\ flameGraphRoot = None

\* the child values whose ideal width float64 may round
RoundedValues(vals) ==
    {v \in {vals[i] : i \in 1..Len(vals)} : RoundingOf(v, SumSeq(vals), [w \in {v} |-> 1]) # 0}

\* generateFlameGraphLayout: childWidths := apportion(childValues, Width)
Apportion ==
    /\ pc = "start"
    /\ \E round \in [RoundedValues(values) -> {-1, 0, 1}],
          backwards \in IF Len(values) > maxInsertion THEN BOOLEAN ELSE {FALSE} :
            widths' = apportion(values, totalWidth, round, backwards)
    /\ pc' = "apportioned"
    /\ UNCHANGED <<p, profileData, beforeProfile, afterProfile, diffProfileData,
                   reverseDiff, sampleIndex, flameGraphRoot, values, totalWidth,
                   layoutVars, uiVars>>

NextApportion == Apportion

SpecApportion == InitApportion /\ [][NextApportion]_vars

\* the number of children with a nonzero value
NonZeroChildren == Cardinality({i \in 1..Len(values) : values[i] # 0})

ExactSum ==
    /\ totalWidth >= NonZeroChildren => SumSeq(widths) = totalWidth
    /\ totalWidth < NonZeroChildren => \A i \in 1..Len(widths) : widths[i] >= 0

FunctionIds == {[A |-> 1, B |-> 2], [A |-> 2, B |-> 1]}

\* the line number is that of the sample within the function
DiffLines(ids) ==
    {[Function |-> [ID |-> ids.A, Name |-> "A", Filename |-> "a.go"], Line |-> 1],
     [Function |-> [ID |-> ids.A, Name |-> "A", Filename |-> "a.go"], Line |-> 2],
     [Function |-> [ID |-> ids.B, Name |-> "B", Filename |-> "b.go"], Line |-> 1]}

HeapSampleTypes == <<[Type |-> "cpu", Unit |-> "nanoseconds"],
                     [Type |-> "alloc_space", Unit |-> "bytes"]>>

AllocSampleTypes == <<[Type |-> "alloc_objects", Unit |-> "count"],
                      [Type |-> "alloc_space", Unit |-> "bytes"]>>

\* the sample types of the two profiles: all three dimensions, one dimension
\* or no dimension can be common, at the same index or not
DiffSampleTypes == {CpuSampleTypes, HeapSampleTypes}

AfterSampleTypes == DiffSampleTypes \cup {AllocSampleTypes}

DiffValues == {<<1, 2>>, <<2, 0>>}

\* stacks of frames that are not inlined
DiffStacks(ids) == SeqsUpTo({[Line |-> <<l>>] : l \in DiffLines(ids)}, MaxDiffLocs)

\* profiles of no sample or of one sample
DiffProfilesOf(typeLists, idMaps) ==
    UNION {{[SampleType |-> types, Sample |-> ss] :
                ss \in {<<>>} \cup {<<[Value |-> v, Location |-> st]>> :
                                        v \in DiffValues, st \in DiffStacks(ids)}} :
           types \in typeLists, ids \in idMaps}

\* the 'before' profile numbers A before B; the 'after' profile numbers them
\* either way
DiffProfiles == DiffProfilesOf(AfterSampleTypes, FunctionIds)

InitDiff ==
    /\ pc = "start"
    /\ beforeProfile \in DiffProfilesOf(DiffSampleTypes, {[A |-> 1, B |-> 2]})
    /\ afterProfile \in DiffProfiles
    /\ diffProfileData = None /\ reverseDiff = None
    /\ p = None /\ profileData = None
    /\ sampleIndex = 0 /\ flameGraphRoot = None
    /\ values = <<>> /\ totalWidth = 0 /\ widths = None
    /\ NoLayout /\ NoProgram

\* main, diff mode: profileData, err = DiffPprofFiles(readerBefore, readerAfter)
Diff ==
    /\ pc = "start"
    /\ diffProfileData' = DiffPprofFiles(beforeProfile, afterProfile)
    /\ pc' = "diffed"
    /\ UNCHANGED <<p, profileData, beforeProfile, afterProfile, reverseDiff,
                   sampleIndex, flameGraphRoot, values, totalWidth, widths,
                   layoutVars, uiVars>>

\* the same command run again with the two files exchanged
DiffReverse ==
    /\ pc = "diffed"
    /\ reverseDiff' = DiffPprofFiles(afterProfile, beforeProfile)
    /\ pc' = "reversed"
    /\ UNCHANGED <<p, profileData, beforeProfile, afterProfile, diffProfileData,
                   sampleIndex, flameGraphRoot, values, totalWidth, widths,
                   layoutVars, uiVars>>

NextDiff == Diff \/ DiffReverse

SpecDiff == InitDiff /\ [][NextDiff]_vars

\* the views the two profiles parse to, and what a view holds for a signature
BeforeViews == ParsePprofFile(beforeProfile).Views

AfterViews == ParsePprofFile(afterProfile).Views

Signatures(view) == {Signature(view.Nodes[id]) : id \in DOMAIN view.Nodes}

NodesOfSignature(view, sig) ==
    {id \in DOMAIN view.Nodes : Signature(view.Nodes[id]) = sig}

FlatOf(view, sig) ==
    SumOver([id \in DOMAIN view.Nodes |-> view.Nodes[id].FlatValue],
            NodesOfSignature(view, sig))

CumOf(view, sig) ==
    SumOver([id \in DOMAIN view.Nodes |-> view.Nodes[id].CumValue],
            NodesOfSignature(view, sig))

\* the dimensions of both profiles: pairs (index before, index after) of
\* views of the same base name
CommonDimensions(bviews, aviews) ==
    {d \in (1..Len(bviews)) \X (1..Len(aviews)) :
        BaseName(bviews[d[1]].Name) = BaseName(aviews[d[2]].Name)}

\* the diff views of a result for the 'after' view of a common dimension
DiffViewsOf(data, aview) ==
    {k \in 1..Len(data.Views) : data.Views[k].Name = <<"Diff:">> \o aview.Name}

\* the diff view has one node per signature of either view, keyed by the hash
\* of the signature, with the deltas and the change type of the signature
OneNodePerSignature(dview, bview, aview) ==
    LET sigs == Signatures(bview) \cup Signatures(aview)
    IN /\ Cardinality(DOMAIN dview.Nodes) = Cardinality(sigs)
       /\ \A sig \in sigs :
            /\ Cardinality(NodesOfSignature(dview, sig)) = 1
            /\ \A id \in NodesOfSignature(dview, sig) :
                LET node == dview.Nodes[id]
                IN /\ id = hashString(sig)
                   /\ node.ID = hashString(sig)
                   /\ node.FlatDelta = FlatOf(aview, sig) - FlatOf(bview, sig)
                   /\ node.CumDelta = CumOf(aview, sig) - CumOf(bview, sig)
                   /\ node.ChangeType =
                        (IF sig \notin Signatures(bview) THEN New
                         ELSE IF sig \notin Signatures(aview) THEN Removed
                         ELSE Modified)

\* --------------------------------------------------------------- C4
\* C4: for each dimension common to the two profiles DiffPprofFiles produces
\* one diff view, holding exactly one node per distinct signature
\* name|file|start-line of either view, with FlatDelta = afterFlat -
\* beforeFlat and CumDelta = afterCum - beforeCum (0 for a missing side) and
\* ChangeType New, Removed or Modified by presence; the node's id is the hash
\* of the signature whatever ids the decoder gave the functions.
C4_OneNodePerSignature ==
    pc = "diffed" =>
        LET bviews == BeforeViews
            aviews == AfterViews
            common == CommonDimensions(bviews, aviews)
        IN /\ Len(diffProfileData.Views) = Cardinality(common)
           /\ \A d \in common :
                /\ Cardinality(DiffViewsOf(diffProfileData, aviews[d[2]])) = 1
                /\ \A k \in DiffViewsOf(diffProfileData, aviews[d[2]]) :
                    OneNodePerSignature(diffProfileData.Views[k],
                                        bviews[d[1]], aviews[d[2]])

\* a function numbered differently by the two profiles is matched, another is
\* New and a third signature is Removed
C4_Witness ==
    /\ pc = "diffed"
    /\ \E d \in CommonDimensions(BeforeViews, AfterViews) :
        LET bview == BeforeViews[d[1]]
            aview == AfterViews[d[2]]
        IN /\ d[1] # d[2]
           /\ \E b \in DOMAIN bview.Nodes, a \in DOMAIN aview.Nodes :
                /\ Signature(bview.Nodes[b]) = Signature(aview.Nodes[a])
                /\ b # a
                /\ bview.Nodes[b].FlatValue # aview.Nodes[a].FlatValue
           /\ \E k \in DiffViewsOf(diffProfileData, aview) :
                {diffProfileData.Views[k].Nodes[id].ChangeType :
                    id \in DOMAIN diffProfileData.Views[k].Nodes} = {Modified, New, Removed}

\* --------------------------------------------------------------- C5
\* C5: for every dimension common to profiles A and B and every signature
\* present in both views, the FlatDelta and the CumDelta of
\* DiffPprofFiles(A, B) are the negation of those of DiffPprofFiles(B, A).
C5_DiffSymmetry ==
    pc = "reversed" =>
        LET bviews == BeforeViews
            aviews == AfterViews
        IN \A d \in CommonDimensions(bviews, aviews) :
            \A k \in DiffViewsOf(diffProfileData, aviews[d[2]]),
               r \in DiffViewsOf(reverseDiff, bviews[d[1]]) :
                \A sig \in Signatures(bviews[d[1]]) \cap Signatures(aviews[d[2]]) :
                    \A dn \in NodesOfSignature(diffProfileData.Views[k], sig),
                       n \in NodesOfSignature(reverseDiff.Views[r], sig) :
                        /\ reverseDiff.Views[r].Nodes[n].FlatDelta =
                                -diffProfileData.Views[k].Nodes[dn].FlatDelta
                        /\ reverseDiff.Views[r].Nodes[n].CumDelta =
                                -diffProfileData.Views[k].Nodes[dn].CumDelta

C5_Witness ==
    /\ pc = "reversed"
    /\ \E d \in CommonDimensions(BeforeViews, AfterViews) :
        \E k \in DiffViewsOf(diffProfileData, AfterViews[d[2]]),
           r \in DiffViewsOf(reverseDiff, BeforeViews[d[1]]) :
            \E sig \in Signatures(BeforeViews[d[1]]) \cap Signatures(AfterViews[d[2]]) :
                \E dn \in NodesOfSignature(diffProfileData.Views[k], sig),
                   n \in NodesOfSignature(reverseDiff.Views[r], sig) :
                    /\ diffProfileData.Views[k].Nodes[dn].FlatDelta > 0
                    /\ diffProfileData.Views[k].Nodes[dn].CumDelta < 0
                    /\ reverseDiff.Views[r].Nodes[n].FlatDelta < 0
                    /\ reverseDiff.Views[r].Nodes[n].CumDelta > 0

\* --------------------------------------------------------------- C10
\* the ratio is the one the cases of calculateRatio give for the two values
IsRatioOf(ratio, before, after) ==
    /\ (before > 0 /\ after > 0) =>
            ~ratio.inf /\ ratio.den > 0 /\ ratio.num * before = after * ratio.den
    /\ (before = 0 /\ after > 0) => ratio.inf
    /\ (before = 0 /\ after = 0) => ~ratio.inf /\ ratio.den > 0 /\ ratio.num = ratio.den
    /\ (before > 0 /\ after = 0) => ~ratio.inf /\ ratio.den > 0 /\ ratio.num = 0

\* C10: calculateRatio(before, after) is after/before when both are positive,
\* +Inf when before = 0 and after > 0, 1.0 when both are 0 and 0.0 when
\* after = 0 and before > 0; the FlatRatio and the CumRatio of every diff node
\* are these ratios of the node's before and after flat and cumulative values.
C10_RatioCases ==
    pc = "diffed" =>
        LET bviews == BeforeViews
            aviews == AfterViews
        IN \A d \in CommonDimensions(bviews, aviews) :
            \A k \in DiffViewsOf(diffProfileData, aviews[d[2]]) :
                \A id \in DOMAIN diffProfileData.Views[k].Nodes :
                    LET node == diffProfileData.Views[k].Nodes[id]
                        sig == Signature(node)
                    IN /\ IsRatioOf(node.FlatRatio, FlatOf(bviews[d[1]], sig),
                                    FlatOf(aviews[d[2]], sig))
                       /\ IsRatioOf(node.CumRatio, CumOf(bviews[d[1]], sig),
                                    CumOf(aviews[d[2]], sig))

\* one diff view shows the four cases: a doubled value, a new cost, an
\* eliminated cost and a value that is 0 on both sides
C10_Witness ==
    /\ pc = "diffed"
    /\ \E k \in 1..Len(diffProfileData.Views) :
        LET nodes == diffProfileData.Views[k].Nodes
        IN /\ \E id \in DOMAIN nodes : nodes[id].CumRatio = Quotient(2, 1)
           /\ \E id \in DOMAIN nodes : nodes[id].CumRatio = PosInf
           /\ \E id \in DOMAIN nodes : nodes[id].CumRatio = ZeroRatio
           /\ \E id \in DOMAIN nodes : nodes[id].FlatRatio = OneRatio /\ nodes[id].FlatDelta = 0
                                        /\ nodes[id].CumDelta # 0

\* --------------------------------------------------------------- C11
\* C11: ParsePprofFile returns the 'no valid sample data' error, and no
\* ProfileData, whenever the profile decodes but no view contains a sample of
\* nonzero value.
C11_NoValidSampleDataError ==
    (/\ pc = "parsed"
     /\ \A i \in 1..Len(p.SampleType) : Counted(p, i) = {})
        => /\ profileData.err = "no valid sample data found in profile"
           /\ profileData.Views = <<>>

\* --------------------------------------------------------------- C12
\* the dimension names of a profile
DimensionNames(prof) == {prof.SampleType[i].Type : i \in 1..Len(prof.SampleType)}

\* the dimension names of the views of a diff result
DiffDimensions(data) == {data.Views[k].Name[2] : k \in 1..Len(data.Views)}

\* C12: DiffPprofFiles produces one diff view for each dimension name present
\* in both profiles and none for a dimension of only one of them; when the
\* profiles share no dimension name it returns an error and no diff data.
C12_CommonDimensions ==
    pc = "diffed" =>
        LET common == DimensionNames(beforeProfile) \cap DimensionNames(afterProfile)
        IN /\ DiffDimensions(diffProfileData) = common
           /\ Len(diffProfileData.Views) = Cardinality(common)
           /\ \A k \in 1..Len(diffProfileData.Views) :
                diffProfileData.Views[k].Name[1] = "Diff:"
           /\ common # {} => diffProfileData.err = None
           /\ common = {} =>
                /\ diffProfileData.err =
                        "no common profile types found to diff between the two files"
                /\ diffProfileData.Views = <<>>
                /\ diffProfileData.RawPprof = None

\* one dimension of each profile is dropped and the common one is diffed
C12_Witness ==
    /\ pc = "diffed"
    /\ DimensionNames(beforeProfile) = {"samples", "cpu"}
    /\ DimensionNames(afterProfile) = {"cpu", "alloc_space"}
    /\ diffProfileData.err = None
    /\ Len(diffProfileData.Views) = 1
    /\ diffProfileData.Views[1].Name = <<"Diff:", "cpu", "(nanoseconds)">>
    /\ DOMAIN diffProfileData.Views[1].Nodes # {}

\* no dimension is common and the diff fails
C12_WitnessNoCommon ==
    /\ pc = "diffed"
    /\ DimensionNames(beforeProfile) \cap DimensionNames(afterProfile) = {}
    /\ diffProfileData.err # None

\* --------------------------------------------------------------- C20
\* a Go map read: the zero value for an absent key
MapGet(mp, k) == IF k \in DOMAIN mp THEN mp[k] ELSE 0

\* the weight the flattened chains give the ordered pair (u, v) in dimension i
PairWeight(prof, i, u, v) ==
    SumOver([n \in Counted(prof, i) |->
                 prof.Sample[n].Value[i] * AdjacentPairs(prof.Sample[n], u, v)],
            Counted(prof, i))

\* C20: edge accounting in ParsePprofFile.  For every ordered pair (u, v) of
\* nodes of a view, u.Out[v] is the sum over the nonzero-value samples of the
\* sample's value times the number of positions where u is immediately
\* followed by v in the sample's flattened chain (outermost caller first,
\* inlined functions unrolled), and v.In[u] equals u.Out[v]; the entries
\* exist exactly for the pairs that are adjacent in some counted sample.
C20_EdgeAccounting ==
    pc = "parsed" =>
        \A i \in ViewIndexes :
            LET nodes == NodesOf(i)
            IN \A u \in DOMAIN nodes : \A v \in DOMAIN nodes :
                LET adjacent == \E n \in Counted(p, i) : AdjacentPairs(p.Sample[n], u, v) > 0
                IN /\ MapGet(nodes[u].Out, v) = PairWeight(p, i, u, v)
                   /\ MapGet(nodes[v].In, u) = MapGet(nodes[u].Out, v)
                   /\ (v \in DOMAIN nodes[u].Out) = adjacent
                   /\ (u \in DOMAIN nodes[v].In) = adjacent
                   /\ DOMAIN nodes[u].Out \subseteq DOMAIN nodes
                   /\ DOMAIN nodes[u].In \subseteq DOMAIN nodes

\* two counted samples, one of them a single location whose inlined frames
\* give the edge A -> B; the edge B -> A does not exist
C20_Witness ==
    /\ pc = "parsed"
    /\ \E i \in ViewIndexes : \E n \in Counted(p, i) :
        /\ Cardinality(Counted(p, i)) = 2
        /\ Len(p.Sample[n].Location) = 1
        /\ FlatChain(p.Sample[n]) = <<1, 2>>
        /\ PairWeight(p, i, 1, 2) = p.Sample[n].Value[i]
        /\ NodesOf(i)[1].Out[2] = p.Sample[n].Value[i]
        /\ NodesOf(i)[2].In[1] = p.Sample[n].Value[i]
        /\ 1 \notin DOMAIN NodesOf(i)[2].Out

\* --------------------------------------------------------------- C17
\* the weight of the edge between two signatures in a parsed view
EdgeWeightOf(view, callerSig, calleeSig) ==
    LET pairs == NodesOfSignature(view, callerSig) \X NodesOfSignature(view, calleeSig)
    IN SumOver([e \in pairs |-> MapGet(view.Nodes[e[1]].Out, e[2])], pairs)

HasEdge(view, callerSig, calleeSig) ==
    \E u \in NodesOfSignature(view, callerSig) : \E v \in NodesOfSignature(view, calleeSig) :
        v \in DOMAIN view.Nodes[u].Out

\* the diff view carries the edge deltas of the two views, by signature
EdgeDeltas(dview, bview, aview) ==
    LET sigs == Signatures(bview) \cup Signatures(aview)
    IN \A callerSig \in sigs : \A calleeSig \in sigs :
        (HasEdge(bview, callerSig, calleeSig) \/ HasEdge(aview, callerSig, calleeSig)) =>
            LET delta == EdgeWeightOf(aview, callerSig, calleeSig)
                            - EdgeWeightOf(bview, callerSig, calleeSig)
                caller == hashString(callerSig)
                callee == hashString(calleeSig)
            IN /\ caller \in DOMAIN dview.Nodes
               /\ callee \in DOMAIN dview.Nodes
               /\ IF delta # 0
                  THEN /\ callee \in DOMAIN dview.Nodes[caller].Out
                       /\ dview.Nodes[caller].Out[callee] = delta
                       /\ caller \in DOMAIN dview.Nodes[callee].In
                       /\ dview.Nodes[callee].In[caller] = delta
                  ELSE /\ callee \notin DOMAIN dview.Nodes[caller].Out
                       /\ caller \notin DOMAIN dview.Nodes[callee].In

\* C17 as stated: for every (caller signature, callee signature) pair with an
\* edge in the 'before' or the 'after' graph, the diff view's caller node has
\* Out[callee] = afterWeight - beforeWeight and the callee node has the same
\* value in In[caller] when the delta is nonzero, and no entry when it is
\* zero, the weights being looked up by signature.
C17_DiffEdges ==
    pc = "diffed" =>
        LET bviews == BeforeViews
            aviews == AfterViews
        IN \A d \in CommonDimensions(bviews, aviews) :
            \A k \in DiffViewsOf(diffProfileData, aviews[d[2]]) :
                EdgeDeltas(diffProfileData.Views[k], bviews[d[1]], aviews[d[2]])

\* --------------------------------------------------------------- C18
\* children i and j have equal float64 remainders for certain: their values
\* are equal, or both ideal widths are computed exactly and their exact
\* fractions are equal
ExactIdeal(i) == RoundingOf(values[i], SumSeq(values), [v \in {values[i]} |-> 1]) = 0

IdealFloor(i) ==
    RemainderItem(i, values[i], SumSeq(values), totalWidth, [v \in {values[i]} |-> 0]).Value

IdealRemain(i) ==
    RemainderItem(i, values[i], SumSeq(values), totalWidth, [v \in {values[i]} |-> 0]).Remain

EqualRemainders(i, j) ==
    \/ values[i] = values[j]
    \/ ExactIdeal(i) /\ ExactIdeal(j) /\ IdealRemain(i) = IdealRemain(j)

\* the columns child i got beyond the integer part of its ideal width,
\* relative to child j of equal remainder
ExtraOver(i, j) ==
    IF values[i] = values[j] THEN widths[i] - widths[j]
    ELSE (widths[i] - IdealFloor(i)) - (widths[j] - IdealFloor(j))

\* C18 as stated: for any number of children, when several children have
\* equal fractional remainders the extra columns go to the earliest of them
\* in their original order; child values [1,1,1] with width 10 yield widths
\* [4,3,3].
C18_StableTieBreak ==
    (pc = "apportioned" /\ totalWidth > 0 /\ SumSeq(values) # 0) =>
        /\ \A i \in 1..Len(values) : \A j \in (i + 1)..Len(values) :
                EqualRemainders(i, j) => ExtraOver(i, j) >= 0
        /\ (values = <<1, 1, 1>> /\ totalWidth = 10) => widths = <<4, 3, 3>>

\* ---------------------------------------------- generateFlameGraphLayout
\* layout[node] = info on a Go map
MapPut(mp, k, v) == [x \in DOMAIN mp \cup {k} |-> IF x = k THEN v ELSE mp[x]]

RECURSIVE findPathToNode(_, _)
\* the nodes from the root to the target, by the Parent pointers
findPathToNode(tree, target) ==
    IF target = NilNode THEN <<>>
    ELSE Append(findPathToNode(tree, tree[target].Parent), target)

RECURSIVE PlaceChildrenNoAdvance(_, _, _, _)
\* lines 149-157 without `childOffset += width`: every child starts at the
\* parent's offset
PlaceChildrenNoAdvance(acc, children, childWidths, i) ==
    IF i > Len(children) THEN acc
    ELSE LET width == childWidths[i]
             placed == IF width > 0
                       THEN [acc EXCEPT
                               !.layout = MapPut(@, children[i],
                                                 [Offset |-> acc.childOffset, Width |-> width]),
                               !.queue = Append(@, children[i])]
                       ELSE acc
         IN PlaceChildrenNoAdvance(placed, children, childWidths, i + 1)

RECURSIVE PlaceChildren(_, _, _, _)
\* lines 149-157: the children of one parent from child i, left to right; a
\* child of positive width gets its entry and joins the queue
PlaceChildren(acc, children, childWidths, i) ==
    IF i > Len(children) THEN acc
    ELSE LET width == childWidths[i]
             placed == IF width > 0
                       THEN [acc EXCEPT
                               !.layout = MapPut(@, children[i],
                                                 [Offset |-> acc.childOffset, Width |-> width]),
                               !.queue = Append(@, children[i])]
                       ELSE acc
         IN PlaceChildren([placed EXCEPT !.childOffset = @ + width],
                          children, childWidths, i + 1)

RECURSIVE LayoutQueue(_, _, _, _, _)
\* lines 133-158: the breadth-first loop over the queue
LayoutQueue(tree, lay, queue, round, backwards) ==
    IF queue = <<>> THEN lay
    ELSE LET parent == Head(queue)
             children == tree[parent].Children
         IN IF Len(children) = 0
            THEN LayoutQueue(tree, lay, Tail(queue), round, backwards)
            ELSE LET parentLayout == lay[parent]
                     childValues == [c \in 1..Len(children) |-> tree[children[c]].Value]
                     childWidths == apportion(childValues, parentLayout.Width, round, backwards)
                     placed == PlaceChildren([layout |-> lay, queue |-> Tail(queue),
                                              childOffset |-> parentLayout.Offset],
                                             children, childWidths, 1)
                 IN LayoutQueue(tree, placed.layout, placed.queue, round, backwards)

\* lines 125-128: the focus node and its parents get the whole width
PathLayout(path, width) ==
    [x \in {path[i] : i \in 1..Len(path)} |-> [Offset |-> 0, Width |-> width]]

\* generateFlameGraphLayout with the queue started at the root
generateFlameGraphLayoutFromRoot(tree, root, focus, width, round, backwards) ==
    IF root = NilNode \/ focus = NilNode \/ width <= 0 THEN <<>>
    ELSE LayoutQueue(tree, PathLayout(findPathToNode(tree, focus), width),
                     <<root>>, round, backwards)

\* generateFlameGraphLayout(root, focusNode, totalWidth) on the tree of root
generateFlameGraphLayout(tree, root, focus, width, round, backwards) ==
    IF root = NilNode \/ focus = NilNode \/ width <= 0 THEN <<>>
    ELSE LayoutQueue(tree, PathLayout(findPathToNode(tree, focus), width),
                     <<focus>>, round, backwards)

\* ------------------------------------------------ specification: layout
\* the values of the nodes below the root
NodeValues(tree) == {tree[n].Value : n \in 2..Len(tree)}

\* the flame view is open on the first dimension of a profile
InitLayout ==
    /\ pc = "start"
    /\ \E shape \in ParseShapes : \E prof \in ParseProfiles(shape) :
            /\ Len(prof.SampleType) > 0
            /\ flameGraphRoot = BuildFlameGraph(prof, 0, FALSE)
    /\ focusNode \in 0..Len(flameGraphRoot)
    /\ totalWidth \in 0..MaxWidth
    /\ layout = None
    /\ p = None /\ profileData = None
    /\ beforeProfile = None /\ afterProfile = None
    /\ diffProfileData = None /\ reverseDiff = None
    /\ sampleIndex = 0
    /\ values = <<>> /\ widths = None
    /\ NoProgram

\* RenderFlameGraph: layout := generateFlameGraphLayout(root, focusNode, termWidth)
Layout ==
    /\ pc = "start"
    /\ \E round \in [NodeValues(flameGraphRoot) -> {-1, 0, 1}] :
            layout' = generateFlameGraphLayout(flameGraphRoot, RootNode, focusNode,
                                               totalWidth, round, FALSE)
    /\ pc' = "laid out"
    /\ UNCHANGED <<p, profileData, beforeProfile, afterProfile, diffProfileData,
                   reverseDiff, sampleIndex, flameGraphRoot, values, totalWidth, widths,
                   focusNode, uiVars>>

NextLayout == Layout

SpecLayout == InitLayout /\ [][NextLayout]_vars

\* --------------------------------------------------------------- C19
RECURSIVE IsAncestor(_, _, _)
\* node a is a proper ancestor of node n
IsAncestor(tree, a, n) ==
    /\ n # NilNode
    /\ tree[n].Parent # NilNode
    /\ (tree[n].Parent = a \/ IsAncestor(tree, a, tree[n].Parent))

\* C19: generateFlameGraphLayout with positive width gives the focus node
\* and every ancestor of it offset 0 and the full width; apart from those
\* only descendants of the focus node have a layout entry, so no sibling of
\* the focus or of one of its ancestors has one.
C19_FocusSubtreeOnly ==
    (pc = "laid out" /\ focusNode # NilNode /\ totalWidth > 0) =>
        LET tree == flameGraphRoot
            onPath == {n \in 1..Len(tree) : n = focusNode \/ IsAncestor(tree, n, focusNode)}
        IN /\ onPath \subseteq DOMAIN layout
           /\ \A n \in onPath : layout[n] = [Offset |-> 0, Width |-> totalWidth]
           /\ \A n \in DOMAIN layout \ onPath : IsAncestor(tree, focusNode, n)
           /\ \A n \in DOMAIN layout \ {RootNode} :
                \A sib \in 1..Len(tree) :
                    (n \in onPath /\ sib # n /\ tree[sib].Parent = tree[n].Parent)
                        => sib \notin DOMAIN layout

\* the focus is a child of the root with a sibling and a child of its own:
\* root and focus span the width, the child is laid out, the sibling is not
C19_Witness ==
    /\ pc = "laid out"
    /\ totalWidth = MaxWidth
    /\ focusNode # NilNode
    /\ flameGraphRoot[focusNode].Parent = RootNode
    /\ Len(flameGraphRoot[RootNode].Children) = 2
    /\ \E c \in DOMAIN layout : flameGraphRoot[c].Parent = focusNode
    /\ layout[RootNode] = [Offset |-> 0, Width |-> MaxWidth]
    /\ layout[focusNode] = [Offset |-> 0, Width |-> MaxWidth]
    /\ \E sib \in 1..Len(flameGraphRoot) :
            /\ sib # focusNode
            /\ flameGraphRoot[sib].Parent = RootNode
            /\ sib \notin DOMAIN layout

\* ------------------------------------------------- the bubbletea model
\* A *FlameNode held by the model is the node's index in the tree of
\* m.flameGraphRoot, NilNode, or StaleNode: a pointer into a tree that
\* m.flameGraphRoot no longer holds.  A nil root is the empty tree.
StaleNode == -1

NilTree == <<>>

\* a nil *ProfileData
NilProfileData == [err |-> None, Views |-> <<>>, RawPprof |-> NoSampleTypeProfile]

\* the view modes and the panes
sourceView == "sourceView"

graphView == "graphView"

flameGraphView == "flameGraphView"

listPane == "listPane"

sourceCodePane == "sourceCodePane"

flameGraphPane == "flameGraphPane"

\* m.source.Width, the width of the right pane after applyPaneSizes
rightPaneWidth == 4

\* --module-path: the functions annotateProjectCode marks as project code
ProjectFunctions == {"A"}

\* what a pointer of the model is once m.flameGraphRoot is assigned and the
\* pointer is not
Aged(node) == IF node = NilNode THEN NilNode ELSE StaleNode

AgedLayout(infos) == [x \in 1..Len(infos) |-> [infos[x] EXCEPT !.Node = Aged(@)]]

\* list.New(nil, ...): the main list of newModel
NewList == [Items |-> <<>>, IsNil |-> TRUE, Index |-> 0, Filtering |-> FALSE]

\* the ok of `m.mainList.SelectedItem().(listItem)`: the cursor is on an item
HasSelectedItem(mm) == mm.mainList.Index < Len(mm.mainList.Items)

\* m.mainList.SelectedItem(): the node of the item under the cursor, 0 for
\* no item
SelectedItem(mm) ==
    IF HasSelectedItem(mm)
    THEN mm.mainList.Items[mm.mainList.Index + 1] ELSE 0

CurrentView(mm) == mm.profileData.Views[mm.currentViewIndex + 1]

\* the Name of the node of the selected list item, "" for no item
SelectedFuncName(mm) ==
    IF ~HasSelectedItem(mm) THEN "" ELSE CurrentView(mm).Nodes[SelectedItem(mm)].Name

RECURSIVE SeqOfSet(_)
\* the nodes of a view in the order of their ids
SeqOfSet(S) ==
    IF S = {} THEN <<>>
    ELSE LET least == CHOOSE x \in S : \A y \in S : x <= y
         IN <<least>> \o SeqOfSet(S \ {least})

RECURSIVE SeqOfHashes(_)
\* the nodes of a diff view, whose ids are hashes, in one fixed order
SeqOfHashes(S) ==
    IF S = {} THEN <<>>
    ELSE LET some == CHOOSE x \in S : TRUE
         IN <<some>> \o SeqOfHashes(S \ {some})

\* model.resortAndSetList with m.sort == byFlat: the nodes of the current
\* view by descending FlatValue, in diff mode by descending abs(FlatDelta),
\* the nodes outside the project left out under showProjectOnly; the cursor
\* of the list stays where it is
resortAndSetList(mm) ==
    IF Len(mm.profileData.Views) = 0 THEN mm
    ELSE LET currentView == CurrentView(mm)
             nodes == sortSlice(IF mm.isDiffMode
                                THEN SeqOfHashes(DOMAIN currentView.Nodes)
                                ELSE SeqOfSet(DOMAIN currentView.Nodes),
                                [id \in DOMAIN currentView.Nodes |->
                                    IF mm.isDiffMode
                                    THEN Abs(currentView.Nodes[id].FlatDelta)
                                    ELSE currentView.Nodes[id].FlatValue])
             items == SelectSeq(nodes, LAMBDA id :
                         ~mm.showProjectOnly
                            \/ currentView.Nodes[id].Name \in ProjectFunctions)
         IN [mm EXCEPT !.mainList.Items = items, !.mainList.IsNil = FALSE]

\* model.setActiveView without `m.flameGraphHover = nil`
setActiveViewKeepHover(mm) ==
    IF Len(mm.profileData.Views) = 0 THEN mm
    ELSE resortAndSetList(
            [mm EXCEPT !.currentViewIndex =
                            IF @ >= Len(mm.profileData.Views) THEN 0 ELSE @,
                       !.flameGraphRoot = NilTree,
                       !.flameGraphFocus = NilNode,
                       !.flameGraphHover = Aged(@),
                       !.flameGraphSelected = NilNode,
                       !.flameGraphLayout = <<>>])

\* model.setActiveView
setActiveView(mm) ==
    IF Len(mm.profileData.Views) = 0 THEN mm
    ELSE resortAndSetList(
            [mm EXCEPT !.currentViewIndex =
                            IF @ >= Len(mm.profileData.Views) THEN 0 ELSE @,
                       !.flameGraphRoot = NilTree,
                       !.flameGraphFocus = NilNode,
                       !.flameGraphHover = NilNode,
                       !.flameGraphSelected = NilNode,
                       !.flameGraphLayout = <<>>])

\* model.rebuildFlameGraph: a new tree; the pointers it does not assign keep
\* pointing into the old one.  No node of the profiles shown here has more
\* than maxInsertion children: sort.Slice keeps equal Values in order.
rebuildFlameGraph(mm) ==
    [mm EXCEPT !.flameGraphRoot =
                    BuildFlameGraph(mm.profileData.RawPprof, mm.currentViewIndex, FALSE),
               !.flameGraphFocus = RootNode,
               !.flameGraphSelected =
                    IF mm.paneFocus = flameGraphPane THEN RootNode ELSE Aged(@),
               !.flameGraphHover = Aged(@),
               !.flameGraphLayout = AgedLayout(@)]

RECURSIVE findNodeByNameIn(_, _, _, _)
RECURSIVE findNodeByName(_, _, _)
\* the loop over root.Children of findNodeByName, from child c
findNodeByNameIn(tree, children, c, targetName) ==
    IF c > Len(children) THEN NilNode
    ELSE LET found == findNodeByName(tree, children[c], targetName)
         IN IF found # NilNode THEN found
            ELSE findNodeByNameIn(tree, children, c + 1, targetName)

\* findNodeByName(root, targetName): the first node of that name, depth first
findNodeByName(tree, root, targetName) ==
    IF tree = NilTree \/ root = NilNode THEN NilNode
    ELSE IF tree[root].Name = targetName THEN root
    ELSE findNodeByNameIn(tree, tree[root].Children, 1, targetName)

\* the flame node of the selected list item in the tree of m.flameGraphRoot
ListSelectedNode(mm) ==
    IF ~HasSelectedItem(mm) THEN NilNode
    ELSE findNodeByName(mm.flameGraphRoot,
                        IF mm.flameGraphRoot = NilTree THEN NilNode ELSE RootNode,
                        SelectedFuncName(mm))

\* model.syncListToFlameGraphSelection: the cursor goes to the first item of
\* the selected node's name
syncListToFlameGraphSelection(mm) ==
    IF mm.flameGraphSelected = NilNode THEN mm
    ELSE LET name == mm.flameGraphRoot[mm.flameGraphSelected].Name
             hits == {i \in 1..Len(mm.mainList.Items) :
                        CurrentView(mm).Nodes[mm.mainList.Items[i]].Name = name}
         IN IF hits = {} THEN mm
            ELSE [mm EXCEPT !.mainList.Index =
                        (CHOOSE i \in hits : \A j \in hits : i <= j) - 1]

\* ------------------------------------------------------ RenderFlameGraph
RECURSIVE visit(_, _, _)
RECURSIVE visitChildren(_, _, _, _)
visitChildren(tree, children, c, depth) ==
    IF c > Len(children) THEN <<>>
    ELSE visit(tree, children[c], depth) \o visitChildren(tree, children, c + 1, depth)

\* groupNodesByRelativeDepth: the nodes below startNode with their relative
\* depth, in the order the traversal appends them
visit(tree, n, depth) ==
    IF n = NilNode THEN <<>>
    ELSE <<[Node |-> n, depth |-> depth]>>
         \o visitChildren(tree, tree[n].Children, 1, depth + 1)

\* lines 226-237: the FlameNodeRenderInfo of one row.  The row is in offset
\* order as the traversal left it (children are laid out left to right), so
\* the sort of line 216 moves nothing.
RowInfos(visited, lay, depth) ==
    LET row == SelectSeq(visited, LAMBDA v :
                    /\ v.depth = depth
                    /\ v.Node \in DOMAIN lay
                    /\ lay[v.Node].Width > 0)
    IN [x \in 1..Len(row) |->
            [Node |-> row[x].Node, X |-> lay[row[x].Node].Offset, Y |-> depth,
             Width |-> lay[row[x].Node].Width]]

\* RenderFlameGraph(root, focusNode, ..., termWidth, ...): the render infos
RenderFlameGraph(tree, focus, termWidth, round) ==
    IF tree = NilTree \/ focus = NilNode THEN <<>>
    ELSE IF tree[focus].Value = 0 \/ termWidth <= 0 THEN <<>>
    ELSE LET lay == generateFlameGraphLayout(tree, RootNode, focus, termWidth, round, FALSE)
             visited == visit(tree, focus, 0)
             maxDepth == CHOOSE d \in 0..Len(tree) :
                            /\ \E x \in 1..Len(visited) : visited[x].depth = d
                            /\ \A x \in 1..Len(visited) : visited[x].depth <= d
         IN Concat([d \in 1..(maxDepth + 1) |-> RowInfos(visited, lay, d - 1)])

\* model.View: the help overlay hides everything; the flame pane renders the
\* graph and stores the render infos through m.flameGraphLayout
View(mm, round) ==
    IF mm.showHelp \/ mm.mode # flameGraphView THEN mm
    ELSE [mm EXCEPT !.flameGraphLayout =
                RenderFlameGraph(mm.flameGraphRoot, mm.flameGraphFocus, rightPaneWidth, round)]

\* ---------------------------------------------------- navigateFlameGraph
\* the first render info of a node, 0 when it has none
findNodeRenderInfo(mm, targetNode) ==
    LET hits == {x \in 1..Len(mm.flameGraphLayout) :
                    mm.flameGraphLayout[x].Node = targetNode}
    IN IF targetNode = NilNode \/ hits = {} THEN 0
       ELSE CHOOSE x \in hits : \A y \in hits : x <= y

First(S) == CHOOSE x \in S : \A y \in S : x <= y

\* the node the direction leads to from the selected node, NilNode for none
NextNode(mm, direction) ==
    LET infos == mm.flameGraphLayout
        currentInfo == infos[findNodeRenderInfo(mm, mm.flameGraphSelected)]
        selected == mm.flameGraphSelected
        tree == mm.flameGraphRoot
    IN CASE direction = "up" ->
              IF tree[selected].Parent # NilNode /\ selected # mm.flameGraphFocus
              THEN tree[selected].Parent ELSE NilNode
         [] direction = "down" ->
              LET targetY == currentInfo.Y + 1
                  centerX == currentInfo.X + currentInfo.Width \div 2
                  row == {x \in 1..Len(infos) : infos[x].Y = targetY}
                  direct == {x \in row : centerX >= infos[x].X
                                            /\ centerX < infos[x].X + infos[x].Width}
                  dist(x) == LET a == Abs(centerX - infos[x].X)
                                 b == Abs(centerX - (infos[x].X + infos[x].Width - 1))
                             IN IF a < b THEN a ELSE b
                  closest == {x \in row : \A y \in row : dist(x) <= dist(y)}
              IN IF direct # {} THEN infos[First(direct)].Node
                 ELSE IF row # {} THEN infos[First(closest)].Node
                 ELSE NilNode
         [] direction = "left" ->
              LET row == {x \in 1..Len(infos) : infos[x].Y = currentInfo.Y
                                                  /\ infos[x].X < currentInfo.X}
                  best == {x \in row : \A y \in row : infos[x].X >= infos[y].X}
              IN IF row # {} THEN infos[First(best)].Node ELSE NilNode
         [] direction = "right" ->
              LET row == {x \in 1..Len(infos) : infos[x].Y = currentInfo.Y
                                                  /\ infos[x].X > currentInfo.X}
                  best == {x \in row : \A y \in row : infos[x].X <= infos[y].X}
              IN IF row # {} THEN infos[First(best)].Node ELSE NilNode

\* model.navigateFlameGraph
navigateFlameGraph(mm, direction) ==
    IF findNodeRenderInfo(mm, mm.flameGraphSelected) = 0 THEN mm
    ELSE LET nextNode == NextNode(mm, direction)
         IN IF nextNode = NilNode THEN mm
            ELSE syncListToFlameGraphSelection([mm EXCEPT !.flameGraphSelected = nextNode])

\* ------------------------------------------------------------ model.Update
\* the messages: tickMsg, profileUpdateMsg{data}, profileUpdateErr{err},
\* tea.KeyMsg and tea.MouseMsg (motion, at a cell of the flame pane)
tickMsg == [type |-> "tickMsg"]

profileUpdateMsg(data) == [type |-> "profileUpdateMsg", data |-> data]

profileUpdateErr(err) == [type |-> "profileUpdateErr", err |-> err]

KeyMsg(key) == [type |-> "KeyMsg", key |-> key]

MouseMsg(x, y) == [type |-> "MouseMsg", X |-> x, Y |-> y]

\* what Update returns: the model and the commands of tea.Batch
Return(mm, cmds) == [m |-> mm, cmds |-> cmds, panic |-> FALSE]

\* Update does not return: an index out of range ends the program with the
\* model as the assignments before it left it
Panic(mm) == [m |-> mm, cmds |-> {}, panic |-> TRUE]

\* m.mainList.Update(msg): the cursor keys move the cursor within the items,
\* "/" starts filtering a list that has items
ListUpdate(list, msg) ==
    IF msg.type # "KeyMsg" THEN list
    ELSE CASE msg.key = "up" ->
                [list EXCEPT !.Index = IF @ > 0 THEN @ - 1 ELSE @]
           [] msg.key = "down" ->
                [list EXCEPT !.Index = IF @ + 1 < Len(list.Items) THEN @ + 1 ELSE @]
           [] msg.key = "/" ->
                [list EXCEPT !.Filtering = Len(list.Items) > 0]
           [] OTHER -> list

\* lines 487-497: while the filter is typed every message goes to the list;
\* enter and esc end the typing (no text is typed here)
UpdateFiltering(mm, msg) ==
    IF msg.type = "KeyMsg" /\ msg.key \in {"enter", "esc"}
    THEN Return([mm EXCEPT !.mainList.Filtering = FALSE], {})
    ELSE Return(mm, {})

\* lines 473-484: while the help is shown every message goes to the viewport
UpdateHelp(mm, msg) ==
    IF msg.type = "KeyMsg" /\ msg.key \in {"?", "esc"}
    THEN Return([mm EXCEPT !.showHelp = FALSE], {})
    ELSE Return(mm, {})

\* lines 511-517
UpdateTick(mm) ==
    Return(mm, (IF mm.isLiveMode /\ ~mm.isPaused THEN {"fetchProfileCmd"} ELSE {})
                    \cup {"tickerCmd"})

\* the loop of lines 538-545: the cursor goes to the first item of that name
RestoreSelection(mm, selectedFuncName) ==
    LET hits == {i \in 1..Len(mm.mainList.Items) :
                    CurrentView(mm).Nodes[mm.mainList.Items[i]].Name = selectedFuncName}
    IN IF selectedFuncName = "" \/ hits = {} THEN mm
       ELSE [mm EXCEPT !.mainList.Index = First(hits) - 1]

\* lines 519-553.  Only setActiveView looks at the index of the view before
\* it takes m.profileData.Views[m.currentViewIndex]: resortAndSetList (line
\* 338), updateGraphLists (line 413, for the selected item) and
\* rebuildFlameGraph (line 884) take it as it is.
UpdateProfile(mm, msg) ==
    LET selectedFuncName == SelectedFuncName(mm)
        loaded == [mm EXCEPT !.lastError = None, !.profileData = msg.data]
        listed == IF mm.mainList.IsNil THEN setActiveView(loaded)
                  ELSE resortAndSetList(loaded)
        restored == RestoreSelection(listed, selectedFuncName)
    IN IF Len(msg.data.Views) = 0
       THEN IF HasSelectedItem(mm) \/ mm.mode = flameGraphView
            THEN Panic(loaded) ELSE Return(loaded, {})
       ELSE IF ~mm.mainList.IsNil /\ mm.currentViewIndex >= Len(msg.data.Views)
       THEN Panic(loaded)
       ELSE Return(IF restored.mode = flameGraphView THEN rebuildFlameGraph(restored)
                   ELSE restored, {})

\* lines 555-557
UpdateErr(mm, msg) == Return([mm EXCEPT !.lastError = msg.err], {})

\* lines 559-594: the hover follows the pointer over the render infos
UpdateMouse(mm, msg) ==
    IF mm.mode # flameGraphView THEN mm
    ELSE LET infos == mm.flameGraphLayout
             hits == {x \in 1..Len(infos) :
                        /\ msg.Y = infos[x].Y
                        /\ msg.X >= infos[x].X
                        /\ msg.X < infos[x].X + infos[x].Width}
         IN [mm EXCEPT !.flameGraphHover =
                    IF hits # {} THEN infos[First(hits)].Node ELSE NilNode]

\* lines 755-779: what follows the switch.  The source pane takes the message
\* when it has the focus; else the main list does, and a moved cursor drops
\* the flame selection when the list has the focus
UpdatePanes(mm, msg) ==
    IF mm.mode = sourceView /\ mm.paneFocus = sourceCodePane THEN mm
    ELSE LET listed == [mm EXCEPT !.mainList = ListUpdate(@, msg)]
         IN IF listed.mainList.Index # mm.mainList.Index
                /\ mm.mode = flameGraphView /\ mm.paneFocus = listPane
            THEN [listed EXCEPT !.flameGraphSelected = NilNode]
            ELSE listed

\* lines 669-677
KeyT(mm) ==
    IF Len(mm.profileData.Views) > 0
    THEN LET switched == setActiveView(
                [mm EXCEPT !.currentViewIndex = (@ + 1) % Len(mm.profileData.Views)])
         IN IF switched.mode = flameGraphView THEN rebuildFlameGraph(switched)
            ELSE switched
    ELSE mm

\* lines 744-750
KeyP(mm) ==
    LET toggled == setActiveView([mm EXCEPT !.showProjectOnly = ~@])
    IN IF toggled.mode = flameGraphView THEN rebuildFlameGraph(toggled) ELSE toggled

\* lines 690-704 without the test of m.isDiffMode
KeyFAnyMode(mm) ==
    IF mm.mode = flameGraphView
    THEN [mm EXCEPT !.mode = sourceView,
                    !.flameGraphRoot = NilTree,
                    !.flameGraphFocus = NilNode,
                    !.flameGraphSelected = NilNode,
                    !.flameGraphHover = Aged(@),
                    !.flameGraphLayout = AgedLayout(@),
                    !.paneFocus = listPane]
    ELSE rebuildFlameGraph([mm EXCEPT !.mode = flameGraphView])

\* lines 690-704
KeyF(mm) ==
    IF mm.isDiffMode THEN mm
    ELSE IF mm.mode = flameGraphView
    THEN [mm EXCEPT !.mode = sourceView,
                    !.flameGraphRoot = NilTree,
                    !.flameGraphFocus = NilNode,
                    !.flameGraphSelected = NilNode,
                    !.flameGraphHover = Aged(@),
                    !.flameGraphLayout = AgedLayout(@),
                    !.paneFocus = listPane]
    ELSE rebuildFlameGraph([mm EXCEPT !.mode = flameGraphView])

\* lines 705-726, in the flame graph view
KeyEnter(mm) ==
    LET nodeToFocus == IF mm.paneFocus = flameGraphPane /\ mm.flameGraphSelected # NilNode
                       THEN mm.flameGraphSelected
                       ELSE ListSelectedNode(mm)
    IN IF nodeToFocus # NilNode
       THEN syncListToFlameGraphSelection(
                [mm EXCEPT !.flameGraphFocus = nodeToFocus,
                           !.flameGraphSelected = nodeToFocus])
       ELSE mm

\* lines 727-739, zoomed in: back to the root whatever the parent is
KeyEscToRoot(mm) ==
    syncListToFlameGraphSelection(
        [mm EXCEPT !.flameGraphFocus = RootNode, !.flameGraphSelected = RootNode])

\* lines 727-739, in the flame graph view with the focus below the root
KeyEsc(mm) ==
    LET parent == mm.flameGraphRoot[mm.flameGraphFocus].Parent
        focus == IF parent # NilNode THEN parent ELSE RootNode
    IN syncListToFlameGraphSelection(
            [mm EXCEPT !.flameGraphFocus = focus, !.flameGraphSelected = focus])

\* lines 644-667
KeyTab(mm) ==
    LET selected == ListSelectedNode(mm)
    IN [mm EXCEPT !.paneFocus = flameGraphPane,
                  !.flameGraphSelected =
                        IF HasSelectedItem(mm) THEN selected ELSE mm.flameGraphFocus]

\* lines 596-752: a key while neither the help nor the filter has it
UpdateKey(mm, msg) ==
    LET key == msg.key
        inGraph == mm.mode = flameGraphView /\ mm.paneFocus = flameGraphPane
    IN IF inGraph /\ mm.flameGraphSelected = NilNode
       THEN Return(syncListToFlameGraphSelection(
                        [mm EXCEPT !.flameGraphSelected = mm.flameGraphFocus]), {})
       ELSE IF inGraph /\ key = "tab"
       THEN Return([mm EXCEPT !.paneFocus = listPane, !.flameGraphSelected = NilNode], {})
       ELSE IF inGraph /\ key \in {"up", "down", "left", "right"}
       THEN Return(navigateFlameGraph(mm, key), {})
       ELSE CASE key = " " ->
                    Return(IF mm.isLiveMode
                           THEN [mm EXCEPT !.isPaused = ~@, !.lastError = None]
                           ELSE mm, {})
              [] key = "?" -> Return([mm EXCEPT !.showHelp = TRUE], {})
              [] key = "tab" /\ mm.mode = sourceView ->
                    Return([mm EXCEPT !.paneFocus =
                                IF @ = sourceCodePane THEN listPane
                                ELSE IF @ = listPane THEN sourceCodePane ELSE @], {})
              [] key = "tab" /\ mm.mode = flameGraphView -> Return(KeyTab(mm), {})
              [] key = "t" -> Return(KeyT(mm), {})
              [] key = "c" ->
                    Return([mm EXCEPT !.mode = IF @ = sourceView THEN graphView
                                               ELSE sourceView,
                                      !.paneFocus = listPane], {})
              [] key = "f" -> Return(KeyF(mm), {})
              [] key = "enter" /\ mm.mode = flameGraphView -> Return(KeyEnter(mm), {})
              [] key = "esc" /\ mm.mode = flameGraphView
                    /\ mm.flameGraphFocus # RootNode /\ mm.flameGraphFocus # NilNode ->
                    Return(KeyEsc(mm), {})
              [] key = "p" -> Return(KeyP(mm), {})
              [] OTHER -> Return(UpdatePanes(mm, msg), {})

\* model.Update
Update(mm, msg) ==
    IF mm.showHelp THEN UpdateHelp(mm, msg)
    ELSE IF mm.mainList.Filtering THEN UpdateFiltering(mm, msg)
    ELSE CASE msg.type = "tickMsg" -> UpdateTick(mm)
           [] msg.type = "profileUpdateMsg" -> UpdateProfile(mm, msg)
           [] msg.type = "profileUpdateErr" -> UpdateErr(mm, msg)
           [] msg.type = "MouseMsg" -> Return(UpdatePanes(UpdateMouse(mm, msg), msg), {})
           [] msg.type = "KeyMsg" -> UpdateKey(mm, msg)

\* ------------------------------------------- specification: the program
MaxFetches == 2      \* fetchProfileCmd commands in flight at once

\* two snapshots of a running program: A calls B and B runs alone, in two
\* dimensions; then A runs alone, in a profile of one dimension
StackOf(names) ==
    [j \in 1..Len(names) |->
        [Line |-> <<[Function |-> IF names[j] = "A" THEN FunA ELSE FunB, Line |-> 1]>>]]

SnapshotOne ==
    [SampleType |-> CpuSampleTypes,
     Sample |-> <<[Value |-> <<2, 1>>, Location |-> StackOf(<<"B", "A">>)],
                  [Value |-> <<1, 0>>, Location |-> StackOf(<<"B">>)]>>]

SnapshotTwo ==
    [SampleType |-> SubSeq(CpuSampleTypes, 1, 1),
     Sample |-> <<[Value |-> <<1>>, Location |-> StackOf(<<"A">>)]>>]

Snapshots == {SnapshotOne, SnapshotTwo}

\* what parser.ParsePprofFile makes of the bodies the server sends
ParsedSnapshots == {ParsePprofFile(snapshot) : snapshot \in Snapshots}

FetchErrors == {"http get: connection refused"}

Keys == {" ", "?", "esc", "enter", "tab", "t", "c", "f", "p", "/",
         "up", "down", "left", "right"}

\* the cells <<X, Y>> of the flame pane the pointer stops on: the left end of
\* the row below the focus and the right end of the row below that
PointerCells == {<<0, 1>>, <<rightPaneWidth - 1, 2>>}

\* the sourceInfo of main: of a profile file, of two files to diff, and the
\* URL of live mode
SourceInfos == {"Source: one.pprof", "Diff: one.pprof vs two.pprof",
                "http://localhost:6060/debug/pprof/profile"}

\* strings.HasPrefix(sourceInfo, "Diff:")
HasPrefixDiff(sourceInfo) == sourceInfo \in {"Diff: one.pprof vs two.pprof"}

\* newModel(data, sourceInfo), and the m.isLiveMode main sets after it
newModel(data, sourceInfo, isLiveMode) ==
    LET mm == [profileData |-> data,
               currentViewIndex |-> 0,
               isDiffMode |-> HasPrefixDiff(sourceInfo),
               showProjectOnly |-> FALSE,
               mode |-> sourceView,
               showHelp |-> FALSE,
               mainList |-> NewList,
               flameGraphRoot |-> NilTree,
               flameGraphFocus |-> NilNode,
               flameGraphSelected |-> NilNode,
               flameGraphHover |-> NilNode,
               flameGraphLayout |-> <<>>,
               isLiveMode |-> isLiveMode,
               isPaused |-> FALSE,
               lastError |-> None,
               paneFocus |-> listPane]
    IN setActiveView(mm)

\* main: a profile file, two profile files to diff, or --live with the
\* commands of model.Init, the first fetch and the ticker
InitProgram ==
    /\ pc = "update"
    /\ \/ /\ m = newModel(ParsePprofFile(SnapshotOne), "Source: one.pprof", FALSE)
          /\ ticker = FALSE /\ fetches = 0
       \/ /\ m = newModel(DiffPprofFiles(SnapshotTwo, SnapshotOne),
                          "Diff: one.pprof vs two.pprof", FALSE)
          /\ ticker = FALSE /\ fetches = 0
       \/ /\ m = newModel(NilProfileData, "http://localhost:6060/debug/pprof/profile",
                          TRUE)
          /\ ticker = TRUE /\ fetches = 1
    /\ p = None /\ profileData = None
    /\ beforeProfile = None /\ afterProfile = None
    /\ diffProfileData = None /\ reverseDiff = None
    /\ sampleIndex = 0 /\ flameGraphRoot = None
    /\ values = <<>> /\ totalWidth = 0 /\ widths = None
    /\ NoLayout

\* the trees of Snapshots have no ideal width next to an integer or to
\* another remainder at rightPaneWidth, so that every rounding of the
\* divisions gives the widths of the exact quotients
ExactWidths(tree) ==
    [v \in IF tree = NilTree THEN {} ELSE NodeValues(tree) |-> 0]

\* the commands Update returned are started and the renderer calls View,
\* which leaves the model as it is unless it draws the flame graph
Started(result) ==
    /\ m' = result.m
    /\ pc' = IF result.panic THEN "panic"
             ELSE IF result.m.showHelp \/ result.m.mode # flameGraphView
             THEN "update" ELSE "view"
    /\ UNCHANGED <<p, profileData, beforeProfile, afterProfile, diffProfileData,
                   reverseDiff, sampleIndex, flameGraphRoot, values, totalWidth, widths,
                   layoutVars>>

\* the renderer shows what Update left
Render ==
    /\ pc = "view"
    /\ m' = View(m, ExactWidths(m.flameGraphRoot))
    /\ pc' = "update"
    /\ UNCHANGED <<p, profileData, beforeProfile, afterProfile, diffProfileData,
                   reverseDiff, sampleIndex, flameGraphRoot, values, totalWidth, widths,
                   layoutVars, ticker, fetches>>

\* the pending tea.Tick fires; nothing in the program limits the fetches in
\* flight, the model stops dispatching at MaxFetches
Tick ==
    /\ pc = "update"
    /\ ticker
    /\ LET result == Update(m, tickMsg)
       IN /\ "fetchProfileCmd" \in result.cmds => fetches < MaxFetches
          /\ Started(result)
          /\ ticker' = ("tickerCmd" \in result.cmds)
          /\ fetches' = IF "fetchProfileCmd" \in result.cmds THEN fetches + 1 ELSE fetches

\* a fetchProfileCmd delivers a parsed profile
FetchSucceeds ==
    /\ pc = "update"
    /\ fetches > 0
    /\ \E data \in ParsedSnapshots : Started(Update(m, profileUpdateMsg(data)))
    /\ fetches' = fetches - 1
    /\ UNCHANGED ticker

\* a fetchProfileCmd delivers an error
FetchFails ==
    /\ pc = "update"
    /\ fetches > 0
    /\ \E err \in FetchErrors : Started(Update(m, profileUpdateErr(err)))
    /\ fetches' = fetches - 1
    /\ UNCHANGED ticker

\* a key is pressed; "f" without profile data panics in rebuildFlameGraph
\* and ends the program
Key ==
    /\ pc = "update"
    /\ \E key \in Keys :
        /\ ~(/\ key = "f" /\ Len(m.profileData.Views) = 0
             /\ ~m.showHelp /\ ~m.mainList.Filtering)
        /\ Started(Update(m, KeyMsg(key)))
    /\ UNCHANGED <<ticker, fetches>>

\* the pointer moves over the right pane
Mouse ==
    /\ pc = "update"
    /\ \E cell \in PointerCells : Started(Update(m, MouseMsg(cell[1], cell[2])))
    /\ UNCHANGED <<ticker, fetches>>

NextProgram == Render \/ Tick \/ FetchFails \/ FetchSucceeds \/ Key \/ Mouse

SpecProgram == InitProgram /\ [][NextProgram]_vars

\* ------------------------------------------------------------------ C13
\* a fetch result is taken off the commands in flight
FetchDelivered == pc = "update" /\ fetches' = fetches - 1

\* C13: when a live fetch fails, that is when Update gets a
\* profileUpdateErr, the profile data, the list and the flame-graph state of
\* the model stay as they are and only the error banner is set; and polling
\* goes on: the ticker stays armed, so that later ticks dispatch fetches.
C13_FetchErrorOnlySetsBanner ==
    [][/\ \A err \in FetchErrors :
            FetchDelivered /\ m' = Update(m, profileUpdateErr(err)).m
                => m' = [m EXCEPT !.lastError = err]
       /\ ticker => ticker']_vars

\* ------------------------------------------------------------------ C14
\* C14: a fetch in flight when the user pauses is not cancelled, and a result
\* that arrives while the model is still paused is discarded: the profile
\* data of the model does not change while it is paused.
C14_PausedKeepsProfileData ==
    [][/\ (m.isPaused /\ m'.isPaused => m'.profileData = m.profileData)
       /\ (m.isPaused # m'.isPaused => fetches' = fetches)]_vars

\* ------------------------------------------------------------------ C15
\* the keyboard is with the switch of Update, not with the help or the filter
KeysHandled(mm) == ~mm.showHelp /\ ~mm.mainList.Filtering

\* the node enter zooms in on: the selected node of the flame pane, else the
\* node of the selected list item
ZoomTarget(mm) ==
    IF mm.paneFocus = flameGraphPane /\ mm.flameGraphSelected # NilNode
    THEN mm.flameGraphSelected
    ELSE ListSelectedNode(mm)

\* C15: in the flame graph view, zoom-in (enter) on a node sets the focus to
\* that node and the selection to the same node; zoom-out (esc with the focus
\* not the root) sets the focus to the parent of the focus node, to the root
\* if it has none, and the selection to the new focus.
C15_ZoomTransitions ==
    [][pc = "update" /\ KeysHandled(m) /\ m.mode = flameGraphView =>
        /\ (ZoomTarget(m) # NilNode /\ m' = Update(m, KeyMsg("enter")).m) =>
                /\ m'.flameGraphFocus = ZoomTarget(m)
                /\ m'.flameGraphSelected = ZoomTarget(m)
                /\ m'.flameGraphRoot = m.flameGraphRoot
        /\ (m.flameGraphFocus \notin {NilNode, RootNode}
                /\ m' = Update(m, KeyMsg("esc")).m) =>
                /\ m'.flameGraphFocus =
                        IF m.flameGraphRoot[m.flameGraphFocus].Parent # NilNode
                        THEN m.flameGraphRoot[m.flameGraphFocus].Parent
                        ELSE RootNode
                /\ m'.flameGraphSelected = m'.flameGraphFocus
                /\ m'.flameGraphRoot = m.flameGraphRoot]_vars

\* esc has zoomed out from a node two levels down to its parent, which is not
\* the root: the layout on screen is still the one drawn for the old focus
C15_Witness ==
    /\ pc = "view"
    /\ m.mode = flameGraphView
    /\ m.flameGraphLayout # <<>>
    /\ LET drawn == m.flameGraphLayout[1].Node
       IN /\ drawn \notin {NilNode, RootNode, StaleNode}
          /\ m.flameGraphFocus = m.flameGraphRoot[drawn].Parent
    /\ m.flameGraphFocus # RootNode
    /\ m.flameGraphSelected = m.flameGraphFocus

\* ------------------------------------------------------------------ C16
\* C16: whenever the active dimension is changed ('t') or the project-only
\* filter is toggled ('p'), the focus, the selection and the hover refer to no
\* node of the previous tree and the cached layout is empty; in flame-graph
\* mode the tree is built anew and the focus is its root.
C16_DimensionChangeInvalidates ==
    [][(\/ m'.currentViewIndex # m.currentViewIndex
        \/ m'.showProjectOnly # m.showProjectOnly) =>
        /\ m'.flameGraphHover = NilNode
        /\ m'.flameGraphLayout = <<>>
        /\ IF m'.mode = flameGraphView
           THEN /\ m'.flameGraphRoot =
                        BuildFlameGraph(m'.profileData.RawPprof, m'.currentViewIndex,
                                        FALSE)
                /\ m'.flameGraphFocus = RootNode
                /\ m'.flameGraphSelected \in {NilNode, RootNode}
           ELSE /\ m'.flameGraphRoot = NilTree
                /\ m'.flameGraphFocus = NilNode
                /\ m'.flameGraphSelected = NilNode]_vars

\* 't' in the flame pane: the second dimension is shown, the tree is new, the
\* selection is its root and nothing is drawn yet
C16_Witness ==
    /\ pc = "view"
    /\ m.mode = flameGraphView
    /\ m.paneFocus = flameGraphPane
    /\ m.currentViewIndex = 1
    /\ m.flameGraphLayout = <<>>
    /\ m.flameGraphHover = NilNode
    /\ m.flameGraphFocus = RootNode
    /\ m.flameGraphSelected = RootNode

\* ------------------------------------------------------------------ C28
\* the sum of the weights of the edges that leave a node
SumOut(node) == SumOver(node.Out, DOMAIN node.Out)

\* C28 as stated: for every node u of a view built by ParsePprofFile the sum
\* of u's outgoing edge weights is <= u.CumValue - u.FlatValue, with equality
\* when the leaf frame of every nonzero-value sample has a function.
C28_OutLeCumMinusFlatAnyStream ==
    pc = "parsed" =>
        \A i \in ViewIndexes :
            /\ \A u \in DOMAIN NodesOf(i) :
                    SumOut(NodesOf(i)[u]) <= NodesOf(i)[u].CumValue - NodesOf(i)[u].FlatValue
            /\ (\A n \in Counted(p, i) : HasLeaf(p.Sample[n])) =>
                    \A u \in DOMAIN NodesOf(i) :
                        SumOut(NodesOf(i)[u])
                            = NodesOf(i)[u].CumValue - NodesOf(i)[u].FlatValue

\* C28 amended: in every view whose sample values are all non-negative the
\* sum of u's outgoing edge weights is <= u.CumValue - u.FlatValue; in every
\* view the two are equal when the leaf frame of every nonzero-value sample
\* has a function.
C28_OutLeCumMinusFlat ==
    pc = "parsed" =>
        \A i \in ViewIndexes :
            LET nodes == NodesOf(i)
            IN /\ NonNegative(p, i) =>
                    \A u \in DOMAIN nodes :
                        SumOut(nodes[u]) <= nodes[u].CumValue - nodes[u].FlatValue
               /\ (\A n \in Counted(p, i) : HasLeaf(p.Sample[n])) =>
                    \A u \in DOMAIN nodes :
                        SumOut(nodes[u]) = nodes[u].CumValue - nodes[u].FlatValue

\* a view of non-negative values with a sample whose leaf location has no
\* line: the function that ends its chain has no callee and no flat value,
\* and the inequality is strict for it; another node has an edge
C28_Witness ==
    /\ pc = "parsed"
    /\ \E i \in ViewIndexes :
        /\ NonNegative(p, i)
        /\ \E n \in Counted(p, i) : ~HasLeaf(p.Sample[n]) /\ Len(FlatChain(p.Sample[n])) > 1
        /\ \E u \in DOMAIN NodesOf(i) :
                SumOut(NodesOf(i)[u]) < NodesOf(i)[u].CumValue - NodesOf(i)[u].FlatValue
        /\ \E u \in DOMAIN NodesOf(i) :
                /\ SumOut(NodesOf(i)[u]) > 0
                /\ SumOut(NodesOf(i)[u]) = NodesOf(i)[u].CumValue - NodesOf(i)[u].FlatValue

\* ------------------------------------------------------------------ C22
\* C22: in the tree returned by BuildFlameGraph the children of every node
\* are ordered by descending Value, and children of equal Value keep their
\* discovery order, the order in which they were created while the samples
\* were scanned (a node's index in the tree is its place in that order).
C22_ChildrenSortedStable ==
    pc = "built" =>
        \A n \in 1..Len(flameGraphRoot) :
            LET children == flameGraphRoot[n].Children
            IN \A c \in 1..Len(children) : \A d \in 1..Len(children) :
                c < d =>
                    /\ flameGraphRoot[children[c]].Value >= flameGraphRoot[children[d]].Value
                    /\ flameGraphRoot[children[c]].Value = flameGraphRoot[children[d]].Value
                            => children[c] < children[d]

\* C22 for the nodes of at most maxInsertion children, which sort.Slice
\* sorts by insertion
C22_ShortChildrenSortedStable ==
    pc = "built" =>
        \A n \in 1..Len(flameGraphRoot) :
            LET children == flameGraphRoot[n].Children
            IN Len(children) <= maxInsertion =>
                \A c \in 1..Len(children) : \A d \in 1..Len(children) :
                    c < d =>
                        /\ flameGraphRoot[children[c]].Value
                                >= flameGraphRoot[children[d]].Value
                        /\ flameGraphRoot[children[c]].Value
                                = flameGraphRoot[children[d]].Value
                                => children[c] < children[d]

\* ------------------------------------------------------------------ C21
\* the nodes generateFlameGraphLayout has dequeued as parents: the focus node
\* and its laid-out descendants
LaidOutBelowFocus ==
    {n \in DOMAIN layout : n = focusNode \/ IsAncestor(flameGraphRoot, focusNode, n)}

\* the values of the whole tree are non-negative
NonNegativeTree(tree) == \A n \in 1..Len(tree) : tree[n].Value >= 0

\* no node is smaller than the sum of its children: the trees that samples
\* of non-negative values build
ChildrenWithinParent(tree) ==
    \A n \in 1..Len(tree) :
        LET children == tree[n].Children
        IN SumOver([c \in 1..Len(children) |-> tree[children[c]].Value],
                   1..Len(children)) <= tree[n].Value

\* the width the layout gives a node, 0 for a node without entry
WidthOf(n) == IF n \in DOMAIN layout THEN layout[n].Width ELSE 0

\* C21: each child's ideal width is the parent's integer width times
\* (child value / parent value); the integer width of a child is its ideal
\* width rounded down or up, so it is less than one column away from it.
\* So the children of a parent with self-time get their share of the
\* parent's value, not of the sum of the children.  Stated for the trees
\* whose values are all non-negative and whose nodes hold their children.
C21_WidthIsShareOfParent ==
    (pc = "laid out" /\ focusNode # NilNode /\ totalWidth > 0
        /\ NonNegativeTree(flameGraphRoot)
        /\ ChildrenWithinParent(flameGraphRoot)) =>
        \A parent \in LaidOutBelowFocus :
            LET tree == flameGraphRoot
                children == tree[parent].Children
            IN tree[parent].Value > 0 =>
                \A c \in 1..Len(children) :
                    LET diff == WidthOf(children[c]) * tree[parent].Value
                                    - layout[parent].Width * tree[children[c]].Value
                    IN diff < tree[parent].Value /\ -diff < tree[parent].Value

\* ------------------------------------------------------------------ C29
\* the spans of the children of the laid-out parents nest and do not overlap
SpansNest ==
    \A parent \in LaidOutBelowFocus :
        LET children == flameGraphRoot[parent].Children
            laid == {c \in 1..Len(children) : children[c] \in DOMAIN layout}
        IN /\ \A c \in laid :
                /\ layout[children[c]].Width > 0
                /\ layout[children[c]].Offset >= layout[parent].Offset
                /\ layout[children[c]].Offset + layout[children[c]].Width
                        <= layout[parent].Offset + layout[parent].Width
           /\ \A c \in laid : \A d \in laid :
                c < d => layout[children[c]].Offset + layout[children[c]].Width
                            <= layout[children[d]].Offset

\* C29 as stated: in any layout returned by generateFlameGraphLayout, the
\* span of every laid-out descendant of the focus node lies within its
\* parent's span, and the spans of the laid-out children of one parent are
\* pairwise disjoint and ordered left to right in child order.
C29_SpansNestAnyTree ==
    (pc = "laid out" /\ focusNode # NilNode /\ totalWidth > 0) => SpansNest

\* C29 amended: the same for the layout of a tree whose node values are all
\* non-negative.
C29_SpansNest ==
    (pc = "laid out" /\ focusNode # NilNode /\ totalWidth > 0
        /\ NonNegativeTree(flameGraphRoot)) => SpansNest

\* the focus has two laid-out children, the second right of the first, and
\* one of them has a laid-out child of its own
C29_Witness ==
    /\ pc = "laid out" /\ focusNode # NilNode /\ totalWidth > 0
    /\ NonNegativeTree(flameGraphRoot)
    /\ LET children == flameGraphRoot[focusNode].Children
       IN /\ Len(children) = 2
          /\ children[1] \in DOMAIN layout /\ children[2] \in DOMAIN layout
          /\ layout[children[2]].Offset = layout[children[1]].Width
          /\ \E g \in DOMAIN layout : flameGraphRoot[g].Parent = children[1]

\* ------------------------------------------------------------------ C23
NavigationKeys == {"up", "down", "left", "right"}

\* the flame pane has the keyboard and a node is selected: the next key goes
\* to the switch of lines 606-614
Navigating(mm) ==
    /\ KeysHandled(mm)
    /\ mm.mode = flameGraphView
    /\ mm.paneFocus = flameGraphPane
    /\ mm.flameGraphSelected # NilNode

\* the selected node is a proper ancestor of the focus node
SelectedAboveFocus(mm) ==
    /\ mm.flameGraphSelected \notin {NilNode, StaleNode}
    /\ mm.flameGraphFocus \notin {NilNode, StaleNode}
    /\ IsAncestor(mm.flameGraphRoot, mm.flameGraphSelected, mm.flameGraphFocus)

\* C23: 'up' in the flame pane moves the selection to the parent of the
\* selected node, except that it leaves the selection where it is when that
\* is the focus node; and after a navigation key the selection is never a
\* proper ancestor of the focus node.
C23_UpBlockedAtFocus ==
    [][pc = "update" /\ Navigating(m) =>
        /\ m' = Update(m, KeyMsg("up")).m =>
                m'.flameGraphSelected =
                    IF m.flameGraphSelected = m.flameGraphFocus
                    THEN m.flameGraphSelected
                    ELSE m.flameGraphRoot[m.flameGraphSelected].Parent
        /\ \A key \in NavigationKeys :
                m' = Update(m, KeyMsg(key)).m => ~SelectedAboveFocus(m')]_vars

\* what navigateFlameGraph does do: 'up' from a drawn node other than the
\* focus selects its parent, 'up' at the focus selects nothing else, and no
\* navigation key takes the selection from the focus or below it to above it
C23_NavigationStaysBelowFocus ==
    [][pc = "update" /\ Navigating(m) =>
        /\ m' = Update(m, KeyMsg("up")).m =>
                m'.flameGraphSelected =
                    IF m.flameGraphSelected = m.flameGraphFocus
                        \/ findNodeRenderInfo(m, m.flameGraphSelected) = 0
                    THEN m.flameGraphSelected
                    ELSE m.flameGraphRoot[m.flameGraphSelected].Parent
        /\ \A key \in NavigationKeys :
                (m' = Update(m, KeyMsg(key)).m /\ ~SelectedAboveFocus(m))
                    => ~SelectedAboveFocus(m')]_vars

\* the flame pane has the keyboard with the parent of the focus node selected
C23_SelectedAboveFocusReached ==
    /\ pc = "update"
    /\ Navigating(m)
    /\ SelectedAboveFocus(m)

\* ------------------------------------------------------------------ C24
\* C24: every tickMsg re-arms one next tick, paused or not and whatever has
\* become of earlier fetches, so a pending tick is always followed by a
\* pending tick; and the Update of a tickMsg dispatches a fetch if and only
\* if the model is in live mode and not paused.
C24_TickRearmsAndFetches ==
    [][pc = "update" /\ ticker =>
        /\ "tickerCmd" \in Update(m, tickMsg).cmds
        /\ "fetchProfileCmd" \in Update(m, tickMsg).cmds
                <=> (m.isLiveMode /\ ~m.isPaused)
        /\ ticker'
        /\ fetches' > fetches => (m.isLiveMode /\ ~m.isPaused)]_vars

\* the same for the ticks that reach the message switch of Update
C24_HandledTickRearmsAndFetches ==
    [][pc = "update" /\ ticker /\ KeysHandled(m) =>
        /\ "tickerCmd" \in Update(m, tickMsg).cmds
        /\ "fetchProfileCmd" \in Update(m, tickMsg).cmds
                <=> (m.isLiveMode /\ ~m.isPaused)
        /\ ticker'
        /\ fetches' > fetches => (m.isLiveMode /\ ~m.isPaused)]_vars

\* ------------------------------------------------------------------ C25
\* C25: a tick dispatches a fetch while earlier ones are in flight; the
\* results are delivered one at a time in the order they arrive, whichever
\* tick dispatched them, and after the delivery of a success message the
\* dataset of the model is the one that message carried.
C25_LastDeliveredSuccessIsDataset ==
    [][\A data \in ParsedSnapshots :
            FetchDelivered /\ m' = Update(m, profileUpdateMsg(data)).m
                => m'.profileData = data]_vars

\* the same for the success messages that reach the message switch of Update
C25_HandledSuccessIsDataset ==
    [][\A data \in ParsedSnapshots :
            FetchDelivered /\ KeysHandled(m) /\ m' = Update(m, profileUpdateMsg(data)).m
                => m'.profileData = data]_vars

\* a tick has dispatched a fetch while another one was in flight
C25_TwoInFlight == fetches >= 2 /\ ticker

\* ------------------------------------------------------------------ C26
\* nil, or a node of the tree m.flameGraphRoot is the root of
InCurrentTree(mm, node) ==
    \/ node = NilNode
    \/ mm.flameGraphRoot # NilTree /\ node \in 1..Len(mm.flameGraphRoot)

\* C26: in every reachable state of the model, flameGraphFocus,
\* flameGraphSelected and flameGraphHover are each nil or a node of the tree
\* of flameGraphRoot, never a node of a tree that was replaced or discarded.
C26_PointersInCurrentTree ==
    /\ InCurrentTree(m, m.flameGraphFocus)
    /\ InCurrentTree(m, m.flameGraphSelected)
    /\ InCurrentTree(m, m.flameGraphHover)

\* the focus is always in the current tree
C26_FocusInCurrentTree == InCurrentTree(m, m.flameGraphFocus)

\* the selection points into a tree that a live update has replaced
C26_StaleSelectionReached == m.flameGraphSelected = StaleNode

\* ------------------------------------------------------------------ C27
\* C27: in every reachable state with a dataset, currentViewIndex is smaller
\* than the number of views of the dataset wherever it is used as an index of
\* the views, also after a live update has delivered a dataset of fewer views
\* than the one before: no use of the index ends the program.
C27_ViewIndexInRange ==
    /\ pc # "panic"
    /\ Len(m.profileData.Views) > 0 => m.currentViewIndex < Len(m.profileData.Views)

\* the index of the view is in range in every state in which the program runs
C27_ViewIndexInRangeWhileRunning ==
    (pc # "panic" /\ Len(m.profileData.Views) > 0)
        => m.currentViewIndex < Len(m.profileData.Views)

\* a live update of fewer views was taken with the first view shown
C27_FewerViewsTaken ==
    /\ pc # "panic"
    /\ ~m.mainList.IsNil
    /\ Len(m.profileData.Views) = 1
    /\ m.isLiveMode
    /\ m.mode = flameGraphView

\* ------------------------------------------------------------------ C30
\* C30: when the model is in diff mode it is never in flame-graph view mode,
\* whatever messages it has got: 'f' leaves the model as it is, and the mode
\* is sourceView or graphView.
C30_NoFlameGraphInDiffMode ==
    m.isDiffMode =>
        /\ m.mode \in {sourceView, graphView}
        /\ Update(m, KeyMsg("f")).m = m

\* two files are compared, and keys have changed the view mode, the
\* dimension and the project filter
C30_Witness ==
    /\ m.isDiffMode
    /\ m.mode = graphView
    /\ m.showProjectOnly
    /\ m.mainList.Index > 0

====
